---- MODULE Spec2Model ----
(***************************************************************************)
(* Nexus JSON Forge (App.tsx): the recursive embedded-JSON resolver        *)
(* processRecursive, the displayData memo, the editor state around it, the *)
(* history kept in localStorage and the calls of the AI service.           *)
(*                                                                         *)
(* Strings are sequences of one-character strings.  "TAB", "LF", "CR",     *)
(* "NBSP" and "BQ" stand for the single characters U+0009, U+000A, U+000D, *)
(* U+00A0 and U+0060.                                                      *)
(* JSON values are records tagged by t:                                    *)
(*   null, bool (b), num (n, e, inf), str (s), arr (a), obj (k, v, p)      *)
(* An object keeps its own keys k in property order, their values v, and   *)
(* its prototype p: <<>> is Object.prototype, <<x>> a prototype replaced   *)
(* by x (an object, an array, or null).                                    *)
(***************************************************************************)
EXTENDS Integers, Sequences, FiniteSets, TLC

(***************************************************************************)
(* Bounds of the model.                                                    *)
(***************************************************************************)
\* Largest maxDepth the resolver is called with (the code allows 1..10).
MaxMaxDepth == 3
\* Longest chain of nested JSON-in-string encodings that is generated.
MaxChain == 4
\* Frames the call stack of processRecursive may hold.
MaxStack == 12
\* Wrappers (array, object, encoding) put around a generated value.
MaxWrap == 2
\* Times the clock moves on in a run.
MaxTicks == 3
\* Calls of the AI service of one kind that are awaited at once.
MaxInFlight == 2
\* The most elements of the page that are marked as search matches.
MaxMatches == 3

(***************************************************************************)
(* JSON values.                                                            *)
(***************************************************************************)
Null == [t |-> "null"]
Bool(b) == [t |-> "bool", b |-> b]
\* A number is n * 10^e, n not a multiple of 10 unless it is 0 (then e = 0),
\* or an infinity, whose sign is the sign of n.  -0 is 0: ===, String and
\* JSON.stringify do not tell them apart.
Num(n) == [t |-> "num", n |-> n, e |-> 0, inf |-> FALSE]
Infinity(sign) == [t |-> "num", n |-> sign, e |-> 0, inf |-> TRUE]
Str(s) == [t |-> "str", s |-> s]
Arr(a) == [t |-> "arr", a |-> a]
EmptyObj == [t |-> "obj", k |-> <<>>, v |-> <<>>, p |-> <<>>]

IsString(x) == x.t = "str"
IsArray(x) == x.t = "arr"
\* data !== null && typeof data === 'object'
IsObjectLike(x) == x.t \in {"arr", "obj"}

(***************************************************************************)
(* Characters.                                                             *)
(***************************************************************************)
Digits == {"0", "1", "2", "3", "4", "5", "6", "7", "8", "9"}
\* Whitespace of the JSON grammar (RFC 8259).
JsonWs == {" ", "TAB", "LF", "CR"}
\* Whitespace String.prototype.trim removes: JSON's and more (U+00A0, ...).
TrimWs == JsonWs \cup {"NBSP"}
\* Characters below U+0020 may not appear raw in a JSON string.
ControlChars == {"TAB", "LF", "CR"}
ProtoKey == <<"_", "_", "p", "r", "o", "t", "o", "_", "_">>

DigitVal(c) ==
  CASE c = "0" -> 0 [] c = "1" -> 1 [] c = "2" -> 2 [] c = "3" -> 3
    [] c = "4" -> 4 [] c = "5" -> 5 [] c = "6" -> 6 [] c = "7" -> 7
    [] c = "8" -> 8 [] c = "9" -> 9

DigitChar(d) ==
  CASE d = 0 -> "0" [] d = 1 -> "1" [] d = 2 -> "2" [] d = 3 -> "3"
    [] d = 4 -> "4" [] d = 5 -> "5" [] d = 6 -> "6" [] d = 7 -> "7"
    [] d = 8 -> "8" [] d = 9 -> "9"

(***************************************************************************)
(* String.prototype.trim and startsWith.                                   *)
(***************************************************************************)
RECURSIVE TrimStart(_)
TrimStart(s) ==
  IF s # <<>> /\ Head(s) \in TrimWs THEN TrimStart(Tail(s)) ELSE s

RECURSIVE TrimEnd(_)
TrimEnd(s) ==
  IF s # <<>> /\ s[Len(s)] \in TrimWs
  THEN TrimEnd(SubSeq(s, 1, Len(s) - 1))
  ELSE s

Trim(s) == TrimEnd(TrimStart(s))

StartsWith(s, c) == s # <<>> /\ Head(s) = c

(***************************************************************************)
(* Own properties of an object, in property order: integer keys ascending, *)
(* then the other keys in insertion order.                                 *)
(***************************************************************************)
\* A canonical array index: "0", or digits with no leading zero.
IsIndexKey(key) ==
  /\ key # <<>>
  /\ \A i \in 1..Len(key) : key[i] \in Digits
  /\ (Len(key) > 1 => key[1] # "0")

RECURSIVE IndexVal(_)
IndexVal(key) ==
  IF key = <<>> THEN 0
  ELSE 10 * IndexVal(SubSeq(key, 1, Len(key) - 1)) + DigitVal(key[Len(key)])

HasOwn(o, key) == \E i \in 1..Len(o.k) : o.k[i] = key

OwnIndex(o, key) == CHOOSE i \in 1..Len(o.k) : o.k[i] = key

\* The place a new key takes among the own keys.
InsertAt(o, key) ==
  IF IsIndexKey(key)
  THEN 1 + Cardinality({i \in 1..Len(o.k) :
                          IsIndexKey(o.k[i]) /\ IndexVal(o.k[i]) < IndexVal(key)})
  ELSE Len(o.k) + 1

InsertSeq(s, i, x) == SubSeq(s, 1, i - 1) \o <<x>> \o SubSeq(s, i, Len(s))

\* CreateDataProperty(o, key, val): an own property, whatever the key.
DefineOwn(o, key, val) ==
  IF HasOwn(o, key)
  THEN [o EXCEPT !.v[OwnIndex(o, key)] = val]
  ELSE [o EXCEPT !.k = InsertSeq(o.k, InsertAt(o, key), key),
                 !.v = InsertSeq(o.v, InsertAt(o, key), val)]

\* result[key] = val on an object created by {} : the key __proto__ is the
\* accessor of Object.prototype, whose setter replaces the prototype when
\* val is an object or null and does nothing otherwise; no own property is
\* created.  Every other key becomes an own data property.
SetProperty(o, key, val) ==
  IF key = ProtoKey
  THEN IF IsObjectLike(val) \/ val = Null THEN [o EXCEPT !.p = <<val>>] ELSE o
  ELSE DefineOwn(o, key, val)

(***************************************************************************)
(* JSON.parse, for the grammar of RFC 8259 over the characters above.      *)
(* Numbers are the integers (an optional minus sign, then 0 or digits with *)
(* no leading 0); the escapes are those of the quote, the backslash, the   *)
(* slash and n, r, t.  A parse step returns [ok, val, pos]: pos is the     *)
(* index after the value.                                                  *)
(***************************************************************************)
NoParse == [ok |-> FALSE, val |-> Null, pos |-> 0]
Parsed(v, p) == [ok |-> TRUE, val |-> v, pos |-> p]

RECURSIVE SkipWs(_, _)
SkipWs(s, i) ==
  IF i <= Len(s) /\ s[i] \in JsonWs THEN SkipWs(s, i + 1) ELSE i

At(s, i) == IF i <= Len(s) THEN s[i] ELSE "EOF"

Unescape(c) ==
  CASE c = "n" -> "LF" [] c = "r" -> "CR" [] c = "t" -> "TAB" [] OTHER -> c

\* The number of backslashes that end just before index p of a string
\* literal whose characters start at index i.
RECURSIVE BackslashRun(_, _, _)
BackslashRun(s, i, p) ==
  IF p - 1 >= i /\ s[p - 1] = "\\" THEN 1 + BackslashRun(s, i, p - 1) ELSE 0

\* The character at p follows the backslash of an escape.
Escaped(s, i, p) == BackslashRun(s, i, p) % 2 = 1

\* The characters lo..hi of a string literal that starts at i, unescaped.
RECURSIVE UnescapeRange(_, _, _, _)
UnescapeRange(s, i, lo, hi) ==
  IF lo > hi THEN <<>>
  ELSE IF lo = hi
    THEN IF Escaped(s, i, lo) THEN <<Unescape(s[lo])>>
         ELSE IF s[lo] = "\\" THEN <<>>
         ELSE <<s[lo]>>
  ELSE UnescapeRange(s, i, lo, (lo + hi) \div 2)
         \o UnescapeRange(s, i, (lo + hi) \div 2 + 1, hi)

\* The characters of a string literal, from the one after its opening
\* quote, up to the first quote that is not escaped.
ParseStringBody(s, i) ==
  LET Closing == {e \in i..Len(s) : s[e] = "\"" /\ ~Escaped(s, i, e)}
      end == CHOOSE e \in Closing : \A f \in Closing : e <= f
  IN  IF Closing = {} THEN NoParse
      ELSE IF \E p \in i..(end - 1) :
                \/ Escaped(s, i, p) /\ s[p] \notin {"\"", "\\", "/", "n", "r", "t"}
                \/ ~Escaped(s, i, p) /\ s[p] \in ControlChars
        THEN NoParse
      ELSE Parsed(Str(UnescapeRange(s, i, i, end - 1)), end + 1)

RECURSIVE ParseDigits(_, _, _)
ParseDigits(s, i, n) ==
  IF At(s, i) \in Digits
  THEN ParseDigits(s, i + 1, 10 * n + DigitVal(s[i]))
  ELSE Parsed(n, i)

\* int: from the first digit.  A leading 0 ends the integer part.
ParseInt(s, i) ==
  IF At(s, i) = "0" THEN Parsed(0, i + 1)
  ELSE IF At(s, i) \in Digits THEN ParseDigits(s, i, 0)
  ELSE NoParse

\* frac: "." and at least one digit.  val is the digits read as a natural,
\* pos - i - 1 their count.
ParseFrac(s, i) ==
  IF At(s, i) = "." /\ At(s, i + 1) \in Digits
  THEN ParseDigits(s, i + 1, 0)
  ELSE NoParse

\* exp: "e" or "E", an optional sign, at least one digit.
ParseExp(s, i) ==
  IF At(s, i) \in {"e", "E"}
  THEN LET j == IF At(s, i + 1) \in {"+", "-"} THEN i + 2 ELSE i + 1
           r == ParseDigits(s, j, 0)
       IN  IF At(s, j) \notin Digits THEN NoParse
           ELSE IF At(s, i + 1) = "-" THEN Parsed(0 - r.val, r.pos)
           ELSE r
  ELSE NoParse

RECURSIVE Pow10(_)
Pow10(k) == IF k = 0 THEN 1 ELSE 10 * Pow10(k - 1)

RECURSIVE DigitCount(_)
DigitCount(n) == IF n < 10 THEN 1 ELSE 1 + DigitCount(n \div 10)

Abs(n) == IF n < 0 THEN 0 - n ELSE n

RECURSIVE Normalize(_, _)
Normalize(n, e) ==
  IF n = 0 THEN Num(0)
  ELSE IF n % 10 = 0 THEN Normalize(n \div 10, e + 1)
  ELSE [t |-> "num", n |-> n, e |-> e, inf |-> FALSE]

\* The first nine digits of n, as a natural.
Leading9(n) ==
  IF DigitCount(n) <= 9 THEN n * Pow10(9 - DigitCount(n))
  ELSE n \div Pow10(DigitCount(n) - 9)

\* The double nearest to n * 10^e, for the n of a few digits: past the
\* largest double (1.7976931348623157e308) it is an infinity, below the
\* smallest (5e-324) it is 0.  The lower precision of the subnormal range
\* (below 1e-308) is not modelled.
ToDouble(n, e) ==
  LET E == e + DigitCount(Abs(n)) - 1
  IN  IF n = 0 THEN Num(0)
      ELSE IF E > 308 \/ (E = 308 /\ Leading9(Abs(n)) > 179769313)
        THEN Infinity(IF n < 0 THEN 0 - 1 ELSE 1)
      ELSE IF E < 0 - 324 THEN Num(0)
      ELSE Normalize(n, e)

\* number = [ "-" ] int [ frac ] [ exp ]
ParseNumber(s, i) ==
  LET neg == At(s, i) = "-"
      int == ParseInt(s, IF neg THEN i + 1 ELSE i)
  IN  IF ~int.ok THEN NoParse
      ELSE LET frac == ParseFrac(s, int.pos)
               fpos == IF frac.ok THEN frac.pos ELSE int.pos
               flen == IF frac.ok THEN frac.pos - int.pos - 1 ELSE 0
               exp == ParseExp(s, fpos)
               n == IF frac.ok THEN int.val * Pow10(flen) + frac.val
                    ELSE int.val
               e == (IF exp.ok THEN exp.val ELSE 0) - flen
           IN  Parsed(ToDouble(IF neg THEN 0 - n ELSE n, e),
                      IF exp.ok THEN exp.pos ELSE fpos)

ParseLiteral(s, i, word, v) ==
  IF i + Len(word) - 1 <= Len(s) /\ SubSeq(s, i, i + Len(word) - 1) = word
  THEN Parsed(v, i + Len(word))
  ELSE NoParse

RECURSIVE ParseValue(_, _)
RECURSIVE ParseElements(_, _, _)
RECURSIVE ParseMembers(_, _, _)

\* The elements of an array, from the first character of an element.
ParseElements(s, i, acc) ==
  LET r == ParseValue(s, i)
      j == SkipWs(s, r.pos)
  IN  IF ~r.ok THEN NoParse
      ELSE IF At(s, j) = "," THEN ParseElements(s, j + 1, Append(acc, r.val))
      ELSE IF At(s, j) = "]" THEN Parsed(Arr(Append(acc, r.val)), j + 1)
      ELSE NoParse

\* The members of an object, from the first character of a member; a
\* repeated key keeps its first place and takes the last value.
ParseMembers(s, i, acc) ==
  LET j == SkipWs(s, i)
      key == IF At(s, j) = "\"" THEN ParseStringBody(s, j + 1) ELSE NoParse
      c == SkipWs(s, key.pos)
      r == IF key.ok /\ At(s, c) = ":" THEN ParseValue(s, c + 1) ELSE NoParse
      e == SkipWs(s, r.pos)
  IN  IF ~r.ok THEN NoParse
      ELSE IF At(s, e) = ","
        THEN ParseMembers(s, e + 1, DefineOwn(acc, key.val.s, r.val))
      ELSE IF At(s, e) = "}"
        THEN Parsed(DefineOwn(acc, key.val.s, r.val), e + 1)
      ELSE NoParse

ParseValue(s, i) ==
  LET j == SkipWs(s, i)
      c == At(s, j)
  IN  IF c = "{"
        THEN IF At(s, SkipWs(s, j + 1)) = "}"
             THEN Parsed(EmptyObj, SkipWs(s, j + 1) + 1)
             ELSE ParseMembers(s, j + 1, EmptyObj)
      ELSE IF c = "["
        THEN IF At(s, SkipWs(s, j + 1)) = "]"
             THEN Parsed(Arr(<<>>), SkipWs(s, j + 1) + 1)
             ELSE ParseElements(s, j + 1, <<>>)
      ELSE IF c = "\"" THEN ParseStringBody(s, j + 1)
      ELSE IF c = "t" THEN ParseLiteral(s, j, <<"t", "r", "u", "e">>, Bool(TRUE))
      ELSE IF c = "f" THEN ParseLiteral(s, j, <<"f", "a", "l", "s", "e">>, Bool(FALSE))
      ELSE IF c = "n" THEN ParseLiteral(s, j, <<"n", "u", "l", "l">>, Null)
      ELSE ParseNumber(s, j)

\* JSON.parse(s): [ok |-> TRUE, val] or, where it throws, [ok |-> FALSE].
JSONParse(s) ==
  LET r == ParseValue(s, 1)
  IN  IF r.ok /\ SkipWs(s, r.pos) = Len(s) + 1
      THEN [ok |-> TRUE, val |-> r.val]
      ELSE [ok |-> FALSE, val |-> Null]

(***************************************************************************)
(* JSON.stringify(v) with no indent: own properties only.                  *)
(***************************************************************************)
RECURSIVE NatChars(_)
NatChars(n) ==
  IF n < 10 THEN <<DigitChar(n)>>
  ELSE Append(NatChars(n \div 10), DigitChar(n % 10))

RECURSIVE Zeros(_)
Zeros(k) == IF k <= 0 THEN <<>> ELSE <<"0">> \o Zeros(k - 1)

\* Number::toString of the positive finite n * 10^e: digits are the k
\* digits of n and p = e + k places the decimal point.
PositiveChars(n, e) ==
  LET digits == NatChars(n)
      k == Len(digits)
      p == e + k
  IN  IF k <= p /\ p <= 21 THEN digits \o Zeros(p - k)
      ELSE IF 0 < p /\ p <= 21
        THEN SubSeq(digits, 1, p) \o <<".">> \o SubSeq(digits, p + 1, k)
      ELSE IF 0 - 6 < p /\ p <= 0
        THEN <<"0", ".">> \o Zeros(0 - p) \o digits
      ELSE (IF k = 1 THEN digits
            ELSE <<digits[1], ".">> \o SubSeq(digits, 2, k))
           \o <<"e", IF p - 1 < 0 THEN "-" ELSE "+">> \o NatChars(Abs(p - 1))

\* JSON.stringify of a number: a number that is not finite gives null.
NumChars(x) ==
  IF x.inf THEN <<"n", "u", "l", "l">>
  ELSE IF x.n = 0 THEN <<"0">>
  ELSE IF x.n < 0 THEN <<"-">> \o PositiveChars(0 - x.n, x.e)
  ELSE PositiveChars(x.n, x.e)

EscapeChar(c) ==
  CASE c = "\"" -> <<"\\", "\"">>
    [] c = "\\" -> <<"\\", "\\">>
    [] c = "LF" -> <<"\\", "n">>
    [] c = "CR" -> <<"\\", "r">>
    [] c = "TAB" -> <<"\\", "t">>
    [] OTHER -> <<c>>

RECURSIVE EscapeRange(_, _, _)
EscapeRange(s, lo, hi) ==
  IF lo > hi THEN <<>>
  ELSE IF lo = hi THEN EscapeChar(s[lo])
  ELSE EscapeRange(s, lo, (lo + hi) \div 2) \o EscapeRange(s, (lo + hi) \div 2 + 1, hi)

EscapeChars(s) == EscapeRange(s, 1, Len(s))

Quote(s) == <<"\"">> \o EscapeChars(s) \o <<"\"">>

RECURSIVE JSONStringify(_)
RECURSIVE StringifyElements(_, _)
RECURSIVE StringifyMembers(_, _)

StringifyElements(a, i) ==
  IF i > Len(a) THEN <<>>
  ELSE (IF i > 1 THEN <<",">> ELSE <<>>) \o JSONStringify(a[i])
         \o StringifyElements(a, i + 1)

StringifyMembers(o, i) ==
  IF i > Len(o.k) THEN <<>>
  ELSE (IF i > 1 THEN <<",">> ELSE <<>>) \o Quote(o.k[i]) \o <<":">>
         \o JSONStringify(o.v[i]) \o StringifyMembers(o, i + 1)

JSONStringify(x) ==
  CASE x.t = "null" -> <<"n", "u", "l", "l">>
    [] x.t = "bool" -> IF x.b THEN <<"t", "r", "u", "e">>
                              ELSE <<"f", "a", "l", "s", "e">>
    [] x.t = "num" -> NumChars(x)
    [] x.t = "str" -> Quote(x.s)
    [] x.t = "arr" -> <<"[">> \o StringifyElements(x.a, 1) \o <<"]">>
    [] x.t = "obj" -> <<"{">> \o StringifyMembers(x, 1) \o <<"}">>

\* JSON.stringify(x, null, 2): the gap is two spaces per level; an empty
\* array or object is written without a line break.
RECURSIVE Spaces(_)
Spaces(k) == IF k <= 0 THEN <<>> ELSE <<" ">> \o Spaces(k - 1)

RECURSIVE JSONStringifyIndent(_, _)
RECURSIVE IndentElements(_, _, _)
RECURSIVE IndentMembers(_, _, _)

IndentElements(a, i, ind) ==
  IF i > Len(a) THEN <<>>
  ELSE (IF i > 1 THEN <<",">> ELSE <<>>) \o <<"LF">> \o Spaces(ind)
         \o JSONStringifyIndent(a[i], ind) \o IndentElements(a, i + 1, ind)

IndentMembers(o, i, ind) ==
  IF i > Len(o.k) THEN <<>>
  ELSE (IF i > 1 THEN <<",">> ELSE <<>>) \o <<"LF">> \o Spaces(ind)
         \o Quote(o.k[i]) \o <<":", " ">>
         \o JSONStringifyIndent(o.v[i], ind) \o IndentMembers(o, i + 1, ind)

JSONStringifyIndent(x, ind) ==
  CASE x.t = "arr" ->
         IF x.a = <<>> THEN <<"[", "]">>
         ELSE <<"[">> \o IndentElements(x.a, 1, ind + 2)
                \o <<"LF">> \o Spaces(ind) \o <<"]">>
    [] x.t = "obj" ->
         IF x.k = <<>> THEN <<"{", "}">>
         ELSE <<"{">> \o IndentMembers(x, 1, ind + 2)
                \o <<"LF">> \o Spaces(ind) \o <<"}">>
    [] OTHER -> JSONStringify(x)

JSONStringifyPretty(x) == JSONStringifyIndent(x, 0)

(***************************************************************************)
(* The values processRecursive is called on: what JSON.parse can return.   *)
(***************************************************************************)
Obj1(key, x) == DefineOwn(EmptyObj, key, x)
DropLast(s) == SubSeq(s, 1, Len(s) - 1)
Encode(x) == Str(JSONStringify(x))

Scalars == {Null, Bool(TRUE), Num(1)}

\* Strings whose trimmed form starts with neither { nor [ : empty, blank,
\* plain text, and the JSON texts of a number, true, null and a string.
PlainStrings ==
  { Str(<<>>), Str(<<" ">>), Str(<<"a">>), Str(<<"4", "2">>),
    Str(<<"t", "r", "u", "e">>), Str(<<"n", "u", "l", "l">>),
    Str(<<"\"", "a", "\"">>) }

\* Strings that start like a JSON document and are none.
BrokenStrings ==
  { Str(<<"{">>), Str(<<"{", "\"", "a", "\"", ":">>), Str(<<"[", "1", ",">>) }

Structures == {Arr(<<>>), Obj1(<<"z">>, Num(1))}

Cores == Scalars \cup PlainStrings \cup BrokenStrings \cup Structures

Decodable == Str(<<"[", "1", "]">>)

WrapperNames ==
  {"encode", "encodeWs", "encodeNbsp", "truncate", "arr1", "arr3",
   "objA", "objProto", "objIndex"}

CanWrap(w, x) ==
  w \in {"encodeWs", "encodeNbsp", "truncate"} => IsObjectLike(x)

Wrap(w, x) ==
  CASE w = "encode" -> Encode(x)
    [] w = "encodeWs" -> Str(<<" ">> \o JSONStringify(x) \o <<"LF">>)
    [] w = "encodeNbsp" -> Str(<<"NBSP">> \o JSONStringify(x))
    [] w = "truncate" -> Str(DropLast(JSONStringify(x)))
    [] w = "arr1" -> Arr(<<x>>)
    [] w = "arr3" -> Arr(<<Str(<<"{">>), x, Decodable>>)
    [] w = "objA" -> Obj1(<<"a">>, x)
    [] w = "objProto" -> Obj1(ProtoKey, x)
    [] w = "objIndex" -> DefineOwn(Obj1(<<"b">>, x), <<"1">>, Decodable)

\* One value of each kind, to be wrapped.
Seeds == {Null, Str(<<"4", "2">>), Str(<<"{">>), Obj1(<<"z">>, Num(1))}

RECURSIVE Wrapped(_)
Wrapped(n) ==
  IF n = 0 THEN Seeds
  ELSE LET P == Wrapped(n - 1)
       IN  P \cup {Wrap(w, x) : <<w, x>> \in
                     {q \in WrapperNames \X P : CanWrap(q[1], q[2])}}

\* A chain of k encodings of base: layer 1 is the text of base, layer k + 1
\* the text of an object whose field y holds layer k.
ChainBases == {Obj1(<<"z">>, Num(1)), Arr(<<Num(1)>>)}

RECURSIVE Layer(_, _)
Layer(k, base) ==
  IF k = 1 THEN Encode(base) ELSE Encode(Obj1(<<"y">>, Layer(k - 1, base)))

ChainKeys == {<<"x">>, ProtoKey}

ChainInput(k, base, key) == Obj1(key, Layer(k, base))

Chains ==
  {ChainInput(k, base, key) : k \in 1..MaxChain, base \in ChainBases, key \in ChainKeys}

\* Arrays and objects nested j deep around a plain leaf.
RECURSIVE Nest(_, _)
Nest(j, leaf) ==
  IF j = 0 THEN leaf
  ELSE IF j % 2 = 1 THEN Arr(<<Nest(j - 1, leaf), Num(1)>>)
  ELSE DefineOwn(Obj1(<<"a">>, Nest(j - 1, leaf)), <<"0">>, Str(<<"a">>))

Nests == {Nest(j, leaf) : j \in 1..(MaxMaxDepth + 2), leaf \in {Null, Str(<<"4", "2">>)}}

Inputs == Cores \cup Wrapped(MaxWrap) \cup Chains \cup Nests

(***************************************************************************)
(* The texts of the textarea: the one App starts with, and those typed or  *)
(* pasted into it.                                                         *)
(***************************************************************************)
DEFAULT_JSON ==
  <<"{", "LF", " ", " ", "\"", "p", "r", "o", "j", "e", "c", "t", "\"",
    ":", " ", "\"", "N", "e", "x", "u", "s", " ", "J", "S", "O", "N", " ",
    "F", "o", "r", "g", "e", "\"", ",", "LF", " ", " ", "\"", "c", "o",
    "n", "f", "i", "g", "_", "s", "t", "r", "i", "n", "g", "\"", ":", " ",
    "\"", "{", "\\", "\"", "d", "e", "b", "u", "g", "\\", "\"", ":", " ",
    "t", "r", "u", "e", ",", " ", "\\", "\"", "l", "e", "v", "e", "l", "s",
    "\\", "\"", ":", " ", "[", "1", ",", " ", "2", ",", " ", "3", "]", "}",
    "\"", ",", "LF", " ", " ", "\"", "n", "e", "s", "t", "e", "d", "_",
    "p", "a", "y", "l", "o", "a", "d", "\"", ":", " ", "\"", "{", "\\",
    "\"", "u", "s", "e", "r", "\\", "\"", ":", " ", "{", "\\", "\"", "i",
    "d", "\\", "\"", ":", " ", "1", "2", "3", ",", " ", "\\", "\"", "m",
    "e", "t", "a", "\\", "\"", ":", " ", "\\", "\"", "{", "\\", "\\", "\\",
    "\"", "t", "h", "e", "m", "e", "\\", "\\", "\\", "\"", ":", " ", "\\",
    "\\", "\\", "\"", "d", "a", "r", "k", "\\", "\\", "\\", "\"", "}",
    "\\", "\"", "}", "}", "\"", ",", "LF", " ", " ", "\"", "a", "c", "t",
    "i", "v", "e", "\"", ":", " ", "t", "r", "u", "e", "LF", "}">>

\* The texts typed or pasted into the textarea.
Texts ==
  { DEFAULT_JSON,
    <<>>,
    <<" ", "LF">>,
    <<"0">>,
    <<"{", "\"", "a", "\"", ":", "1", ",">>,
    <<"{", "}">>,
    <<"NBSP", "{", "}">>,
    <<" ", "[", "1", ",", " ", "2", "]", "LF">>,
    <<"[", "1", "e", "9", "9", "9", "]">>,
    <<"[", "1", ".", "5", "0", ",", "-", "2", "E", "2", "]">>,
    JSONStringify(Encode(Obj1(<<"a">>, Num(1)))),
    JSONStringify(Obj1(<<"n">>, Str(<<"4", "2">>))),
    JSONStringify(Obj1(ProtoKey, Encode(Arr(<<Num(1)>>)))),
    JSONStringify(DefineOwn(Obj1(<<"b">>, Str(<<"{">>)), <<"1">>, Decodable)),
    JSONStringify(ChainInput(2, Obj1(<<"z">>, Num(1)), <<"x">>)),
    JSONStringify(ChainInput(MaxChain, Arr(<<Num(1)>>), <<"x">>)) }

\* A text whose resolution reaches a string that does not parse and the
\* depth bound of the initial configuration.
BusyText ==
  JSONStringify(DefineOwn(ChainInput(3, Arr(<<Num(1)>>), <<"x">>), <<"b">>, Str(<<"{">>)))

\* The texts typed where the history and the AI actions are explored.
ShortTexts ==
  { <<>>,
    BusyText,
    <<"{", "}">>,
    <<"{", "\"", "a", "\"", ":", "1", ",">>,
    <<" ", " ", "n", "u", "l", "l", " ">>,
    JSONStringify(Obj1(<<"n">>, Str(<<"4", "2">>))) }

(***************************************************************************)
(* JSON.parse is a pure function of its argument: it is computed once for  *)
(* every string that is ever parsed, the strings of the inputs and of the  *)
(* texts, of what they decode to, and the minified and formatted texts.    *)
(* JSONParseOf(s) = JSONParse(s).                                          *)
(***************************************************************************)
RECURSIVE StringsOf(_)
StringsOf(x) ==
  CASE IsString(x) ->
         {x.s} \cup UNION {StringsOf(r.val) : r \in {q \in {JSONParse(x.s)} : q.ok}}
    [] IsArray(x) -> UNION {StringsOf(x.a[i]) : i \in DOMAIN x.a}
    [] x.t = "obj" -> UNION {StringsOf(x.v[i]) : i \in DOMAIN x.v}
    [] OTHER -> {}

\* What handleMinify makes of the texts.
Minified == {JSONStringify(r.val) : r \in {JSONParse(text) : text \in Texts}}
\* What handleFormat makes of the texts.
Formatted == {JSONStringifyPretty(r.val) : r \in {JSONParse(text) : text \in Texts}}

ParseTable ==
  [s \in UNION {StringsOf(x) :
                  x \in Inputs \cup {Str(text) : text \in Texts \cup ShortTexts
                                                              \cup Minified \cup Formatted}}
     |-> JSONParse(s)]

JSONParseOf(s) == ParseTable[s]

(***************************************************************************)
(* State.                                                                  *)
(*                                                                         *)
(* input, parseResult, recursiveConfig: the useState cells of App.         *)
(* displayData: the value of the useMemo.  parsePending: the parse effect  *)
(* is scheduled (input changed since it last ran).                         *)
(*                                                                         *)
(* A call of processRecursive runs one source step at a time on stack, the *)
(* frames of its recursion, innermost last.  A frame holds the arguments   *)
(* data and depth (currentDepth), the place pc the invocation has reached  *)
(* and, in a loop, the index i of the next element or key and the result   *)
(* acc built so far.  maxDepth is the argument every invocation shares.    *)
(* retval is <<>>, or <<v>> when the invocation that just ended returned   *)
(* v.  For the call in progress or just ended: topCall is its arguments,   *)
(* returned the invocations that have returned, each with its result,      *)
(* calls the number of invocations, attempts the number of JSON.parse      *)
(* calls and parses the number of those that did not throw.                *)
(***************************************************************************)
VARIABLES input, parseResult, recursiveConfig, displayData, parsePending,
          stack, maxDepth, retval, topCall, returned, calls, attempts, parses,
          mounted, effectParses, inputSince,
          history, stored, timer, now, ticks, nextId,
          aiLoading, generatedTypes, viewMode, inFlight, alertText,
          searchQuery, currentMatchIndex, totalMatches, searchTimer, rendered

(***************************************************************************)
(* mounted: the effects of the first render have begun, the history effect *)
(* first.  effectParses: the JSON.parse calls of the last parse effect.    *)
(* inputSince: the time of the last change of input.                       *)
(*                                                                         *)
(* history: the useState cell, newest item first.  stored: localStorage at *)
(* HISTORY_KEY, unread until the history effect reads it.  timer: the      *)
(* pending setTimeouts of the parse effect, oldest first, each with the    *)
(* input of its render (content) and the time it is due.  now: Date.now(), *)
(* in milliseconds since the page was opened; ticks: how often time has    *)
(* moved on.  nextId: the ids given so far (Math.random draws a fresh      *)
(* one).                                                                   *)
(*                                                                         *)
(* aiLoading, generatedTypes (<<>> for null), viewMode: useState cells.    *)
(* inFlight: the calls of the AI service that have not settled: of         *)
(* fixInvalidJson the texts they were given, oldest first, of              *)
(* generateTypeScriptInterfaces their number.  alertText: <<>>, or <<m>>   *)
(* for the last alert(m).                                                  *)
(*                                                                         *)
(* searchQuery, currentMatchIndex, totalMatches: useState cells.           *)
(* searchTimer: the setTimeout of the search effect is pending.            *)
(* rendered: the JsonTree node that was rendered last with its subtree     *)
(* expanded: its props data, name (<<>> for undefined) and searchQuery,    *)
(* its hasMatch and the number of elements it marks as matches.            *)
(***************************************************************************)
histVars == <<history, stored, timer, now, ticks, nextId>>
aiVars == <<aiLoading, generatedTypes, viewMode, inFlight, alertText>>
searchVars == <<searchQuery, currentMatchIndex, totalMatches, searchTimer, rendered>>
appVars == <<input, parseResult, recursiveConfig, displayData, parsePending,
             mounted, effectParses, inputSince, histVars, aiVars, searchVars>>
callVars == <<stack, maxDepth, retval, topCall, returned, calls, attempts, parses>>
vars == <<input, parseResult, recursiveConfig, displayData, parsePending,
          stack, maxDepth, retval, topCall, returned, calls, attempts, parses,
          mounted, effectParses, inputSince,
          history, stored, timer, now, ticks, nextId,
          aiLoading, generatedTypes, viewMode, inFlight, alertText,
          searchQuery, currentMatchIndex, totalMatches, searchTimer, rendered>>

(***************************************************************************)
(* processRecursive(data, currentDepth, maxDepth).                         *)
(***************************************************************************)
Frame(data, depth) ==
  [data |-> data, depth |-> depth, pc |-> "call", i |-> 0, acc |-> Null]

Top == stack[Len(stack)]
Running == stack # <<>>
\* The innermost invocation is at its first statement.
AtCall == Running /\ Top.pc = "call" /\ retval = <<>>

\* Faulty variant of LooksLikeJson: every string is tried as JSON.
LooksLikeJsonAnyString(data) == IsString(data)

\* typeof data === 'string' &&
\*   (data.trim().startsWith('{') || data.trim().startsWith('['))
LooksLikeJson(data) ==
  /\ IsString(data)
  /\ (StartsWith(Trim(data.s), "{") \/ StartsWith(Trim(data.s), "["))

\* Faulty variant of AtBound: the bound is passed by one.
AtBoundOffByOne(depth, m) == depth > m

\* currentDepth >= maxDepth
AtBound(depth, m) == depth >= m

\* What JSON.parse is given.
ParseArgument(data) == data.s

\* Faulty variant of DepthAfterParse: a decode costs no depth.
DepthAfterParseSame(depth) == depth

\* The depth of the invocation on the parsed value.
DepthAfterParse(depth) == depth + 1

\* Faulty variant of DepthOfChild: descending costs depth.
DepthOfChildIncremented(depth) == depth + 1

\* The depth of the invocation on an array element or an object field.
DepthOfChild(depth) == depth

\* The innermost invocation returns v to its caller.
Return(v) ==
  /\ stack' = SubSeq(stack, 1, Len(stack) - 1)
  /\ retval' = <<v>>
  /\ returned' = returned \cup {[data |-> Top.data, depth |-> Top.depth, out |-> v]}

\* The innermost invocation calls processRecursive(data, depth, maxDepth)
\* and waits for it at pc.
Invoke(pc, data, depth) ==
  /\ Len(stack) < MaxStack
  /\ stack' = Append([stack EXCEPT ![Len(stack)].pc = pc], Frame(data, depth))
  /\ retval' = <<>>
  /\ calls' = calls + 1
  /\ UNCHANGED returned

\* if (currentDepth >= maxDepth) return data;
ReturnAtBound ==
  /\ AtCall
  /\ AtBound(Top.depth, maxDepth)
  /\ Return(Top.data)
  /\ UNCHANGED <<appVars, maxDepth, topCall, calls, attempts, parses>>

\* Faulty variant of ParseOk: the recursion is on data again, at the same
\* depth.
ParseOkSameCall ==
  /\ AtCall
  /\ ~AtBound(Top.depth, maxDepth)
  /\ LooksLikeJson(Top.data)
  /\ JSONParseOf(ParseArgument(Top.data)).ok
  /\ Invoke("try", Top.data, Top.depth)
  /\ attempts' = attempts + 1
  /\ parses' = parses + 1
  /\ UNCHANGED <<appVars, maxDepth, topCall>>

\* Faulty variant of ParseOk: the parsed value is returned as it is.
ParseOkShallow ==
  /\ AtCall
  /\ ~AtBound(Top.depth, maxDepth)
  /\ LooksLikeJson(Top.data)
  /\ \E parsed \in {JSONParseOf(ParseArgument(Top.data))} :
       /\ parsed.ok
       /\ Return(parsed.val)
  /\ attempts' = attempts + 1
  /\ parses' = parses + 1
  /\ UNCHANGED <<appVars, maxDepth, topCall, calls>>

\* const parsed = JSON.parse(data);
\* return processRecursive(parsed, currentDepth + 1, maxDepth);
ParseOk ==
  /\ AtCall
  /\ ~AtBound(Top.depth, maxDepth)
  /\ LooksLikeJson(Top.data)
  /\ \E parsed \in {JSONParseOf(ParseArgument(Top.data))} :
       /\ parsed.ok
       /\ Invoke("try", parsed.val, DepthAfterParse(Top.depth))
  /\ attempts' = attempts + 1
  /\ parses' = parses + 1
  /\ UNCHANGED <<appVars, maxDepth, topCall>>

\* ... the invocation in the try block returned: return its value.
TryReturn ==
  /\ Running
  /\ Top.pc = "try"
  /\ retval # <<>>
  /\ Return(retval[1])
  /\ UNCHANGED <<appVars, maxDepth, topCall, calls, attempts, parses>>

\* Faulty variant of ParseThrows: the catch block returns null.
ParseThrowsReturnsNull ==
  /\ AtCall
  /\ ~AtBound(Top.depth, maxDepth)
  /\ LooksLikeJson(Top.data)
  /\ ~JSONParseOf(ParseArgument(Top.data)).ok
  /\ Return(Null)
  /\ attempts' = attempts + 1
  /\ UNCHANGED <<appVars, maxDepth, topCall, calls, parses>>

\* JSON.parse throws: catch { return data; }
ParseThrows ==
  /\ AtCall
  /\ ~AtBound(Top.depth, maxDepth)
  /\ LooksLikeJson(Top.data)
  /\ ~JSONParseOf(ParseArgument(Top.data)).ok
  /\ Return(Top.data)
  /\ attempts' = attempts + 1
  /\ UNCHANGED <<appVars, maxDepth, topCall, calls, parses>>

\* if (Array.isArray(data)) return data.map(item => ...): map starts.
MapEnter ==
  /\ AtCall
  /\ ~AtBound(Top.depth, maxDepth)
  /\ ~LooksLikeJson(Top.data)
  /\ IsArray(Top.data)
  /\ stack' = [stack EXCEPT ![Len(stack)].pc = "map",
                            ![Len(stack)].i = 1,
                            ![Len(stack)].acc = Arr(<<>>)]
  /\ UNCHANGED <<appVars, maxDepth, retval, topCall, returned, calls, attempts, parses>>

\* map calls the callback on the next element.
MapCall ==
  /\ Running
  /\ Top.pc = "map"
  /\ retval = <<>>
  /\ Top.i <= Len(Top.data.a)
  /\ Invoke("map", Top.data.a[Top.i], DepthOfChild(Top.depth))
  /\ UNCHANGED <<appVars, maxDepth, topCall, attempts, parses>>

\* map stores what the callback returned.
MapStore ==
  /\ Running
  /\ Top.pc = "map"
  /\ retval # <<>>
  /\ stack' = [stack EXCEPT ![Len(stack)].acc = Arr(Append(Top.acc.a, retval[1])),
                            ![Len(stack)].i = Top.i + 1]
  /\ retval' = <<>>
  /\ UNCHANGED <<appVars, maxDepth, topCall, returned, calls, attempts, parses>>

\* map is through: return the new array.
MapReturn ==
  /\ Running
  /\ Top.pc = "map"
  /\ retval = <<>>
  /\ Top.i > Len(Top.data.a)
  /\ Return(Top.acc)
  /\ UNCHANGED <<appVars, maxDepth, topCall, calls, attempts, parses>>

\* if (data !== null && typeof data === 'object') { const result = {}; ...
ForInEnter ==
  /\ AtCall
  /\ ~AtBound(Top.depth, maxDepth)
  /\ ~LooksLikeJson(Top.data)
  /\ ~IsArray(Top.data)
  /\ IsObjectLike(Top.data)
  /\ stack' = [stack EXCEPT ![Len(stack)].pc = "forin",
                            ![Len(stack)].i = 1,
                            ![Len(stack)].acc = EmptyObj]
  /\ UNCHANGED <<appVars, maxDepth, retval, topCall, returned, calls, attempts, parses>>

\* for (const key in data) ... processRecursive(data[key], ...)
ForInCall ==
  /\ Running
  /\ Top.pc = "forin"
  /\ retval = <<>>
  /\ Top.i <= Len(Top.data.k)
  /\ Invoke("forin", Top.data.v[Top.i], DepthOfChild(Top.depth))
  /\ UNCHANGED <<appVars, maxDepth, topCall, attempts, parses>>

\* Faulty variant of AssignResult: the value is written into data itself,
\* which is then the result.
AssignResultInPlace(frame, key, value) ==
  [frame EXCEPT !.data = SetProperty(frame.data, key, value),
                !.acc = SetProperty(frame.data, key, value),
                !.i = frame.i + 1]

\* The frame after result[key] = value: data is read, result is written.
AssignResult(frame, key, value) ==
  [frame EXCEPT !.acc = SetProperty(frame.acc, key, value),
                !.i = frame.i + 1]

\* result[key] = <what the invocation returned>
ForInAssign ==
  /\ Running
  /\ Top.pc = "forin"
  /\ retval # <<>>
  /\ stack' = [stack EXCEPT
                 ![Len(stack)] = AssignResult(Top, Top.data.k[Top.i], retval[1])]
  /\ retval' = <<>>
  /\ UNCHANGED <<appVars, maxDepth, topCall, returned, calls, attempts, parses>>

\* return result;
ForInReturn ==
  /\ Running
  /\ Top.pc = "forin"
  /\ retval = <<>>
  /\ Top.i > Len(Top.data.k)
  /\ Return(Top.acc)
  /\ UNCHANGED <<appVars, maxDepth, topCall, calls, attempts, parses>>

\* return data;  (the last line: null, boolean, number, other strings)
ReturnData ==
  /\ AtCall
  /\ ~AtBound(Top.depth, maxDepth)
  /\ ~LooksLikeJson(Top.data)
  /\ ~IsObjectLike(Top.data)
  /\ Return(Top.data)
  /\ UNCHANGED <<appVars, maxDepth, topCall, calls, attempts, parses>>

ProcessRecursiveStep ==
  \/ ReturnAtBound
  \/ ParseOk
  \/ TryReturn
  \/ ParseThrows
  \/ MapEnter
  \/ MapCall
  \/ MapStore
  \/ MapReturn
  \/ ForInEnter
  \/ ForInCall
  \/ ForInAssign
  \/ ForInReturn
  \/ ReturnData

\* The state in which processRecursive(data, depth, m) has just been called.
StartCall(data, depth, m) ==
  /\ stack' = <<Frame(data, depth)>>
  /\ maxDepth' = m
  /\ retval' = <<>>
  /\ topCall' = [data |-> data, depth |-> depth]
  /\ returned' = {}
  /\ calls' = 1
  /\ attempts' = 0
  /\ parses' = 0

\* The top-level call has returned.
Done == stack = <<>> /\ retval # <<>>

(***************************************************************************)
(* App: the parse result.                                                  *)
(***************************************************************************)
ValidResult(data) == [valid |-> TRUE, data |-> data, error |-> <<>>]
\* Faulty variant of InvalidResult: the message is dropped.
InvalidResultNoMessage(message) == [valid |-> FALSE, data |-> Null, error |-> <<>>]

\* error is <<>> for null, <<message>> for e.message.
InvalidResult(message) == [valid |-> FALSE, data |-> Null, error |-> <<message>>]

Min(a, b) == IF a < b THEN a ELSE b
Max(a, b) == IF a > b THEN a ELSE b

(***************************************************************************)
(* App: the history in localStorage and the calls of the AI service.       *)
(***************************************************************************)
MAX_HISTORY_DAYS == 7
MAX_HISTORY_ITEMS == 50
\* 24 * 60 * 60 * 1000
DayMs == 24 * 60 * 60 * 1000
\* The delay of the auto-save timer: setTimeout(..., 3000).
SaveDelay == 3000

HistoryItem(id, timestamp, content) ==
  [id |-> id, timestamp |-> timestamp, content |-> content]

\* localStorage at HISTORY_KEY.  A list is stored as its JSON text, which
\* JSON.parse reads back as the same list (ids and contents are strings,
\* timestamps integers): the list stands for its text.  Corrupt is a text
\* that JSON.parse rejects, or the text of a value without filter.
Unread == [kind |-> "unread", items |-> <<>>]
Absent == [kind |-> "absent", items |-> <<>>]
Corrupt == [kind |-> "corrupt", items |-> <<>>]
StoredList(items) == [kind |-> "list", items |-> items]

\* What an earlier session may have left.  The page opens at time 0: the
\* items of earlier sessions have negative timestamps and negative ids.
StoredChoices ==
  { Absent,
    Corrupt,
    StoredList(<<HistoryItem(0 - 1, 0 - 1000,
                             JSONStringify(Obj1(<<"n">>, Str(<<"4", "2">>))))>>),
    StoredList(<<HistoryItem(0 - 1, 1000 - MAX_HISTORY_DAYS * DayMs,
                             JSONStringify(Obj1(<<"n">>, Str(<<"4", "2">>)))),
                 HistoryItem(0 - 2, 0 - MAX_HISTORY_DAYS * DayMs,
                             <<" ", "[", "1", ",", " ", "2", "]", "LF">>)>>) }

\* A history of n items as an earlier session left it, a minute between
\* two saves: the i-th newest holds the text [i] with i written in six
\* digits.
StoredItems(n) ==
  [i \in 1..n |->
     HistoryItem(0 - i, 0 - 60000 * i,
                 <<"[">> \o Tail(NatChars(1000000 + i)) \o <<"]">>)]

FullChoices ==
  { StoredList(StoredItems(MAX_HISTORY_ITEMS)),
    StoredList(StoredItems(MAX_HISTORY_ITEMS - 1)) }

\* How far the clock moves at once.
TickSteps == {1000, SaveDelay, MAX_HISTORY_DAYS * DayMs}
\* The clock is followed for two weeks.
Horizon == 2 * MAX_HISTORY_DAYS * DayMs

\* now - (MAX_HISTORY_DAYS * 24 * 60 * 60 * 1000)
Cutoff(t) == t - MAX_HISTORY_DAYS * DayMs
\* parsedHistory.filter(item => item.timestamp > cutoff)
ValidHistory(items, t) == SelectSeq(items, LAMBDA item : item.timestamp > Cutoff(t))

\* Faulty variant of Take: the list is not cut.
TakeAll(list, n) == list

\* list.slice(0, n)
Take(list, n) == SubSeq(list, 1, Min(n, Len(list)))

\* The timer the parse effect of the render with input text starts at t.
Timer(text, t) == [content |-> text, due |-> t + SaveDelay]

\* <ActionButton loading={loading} disabled={...} />, which renders
\* <button disabled={loading || props.disabled} {...props}>: a disabled
\* prop that is passed (disabledProp = <<b>>) is spread after the
\* attribute and replaces it.
ButtonDisabled(loading, disabledProp) ==
  IF disabledProp # <<>> THEN disabledProp[1] ELSE loading

\* geminiService.  What generateContent resolves to: response.text is
\* undefined (<<>>) or a string (<<text>>).
FixResponses ==
  { <<>>,
    << <<" ", "LF">> >>,
    << <<"{", "\"", "a", "\"", ":", "1", ",">> >>,
    << <<" ">> \o JSONStringify(Obj1(<<"n">>, Str(<<"4", "2">>))) \o <<"LF">> >> }

\* response.text?.trim() || "{}"
FixInvalidJson(response) ==
  IF response = <<>> \/ Trim(response[1]) = <<>>
  THEN <<"{", "}">>
  ELSE Trim(response[1])

\* "T" stands for the text of a type declaration.
\* The fence of a markdown code block; "BQ" stands for U+0060.
Fence == <<"BQ", "BQ", "BQ">>
TypeResponses ==
  { <<>>,
    << <<"T">> >>,
    << Fence \o <<"t", "s", "LF", "T", "LF">> \o Fence >>,
    << Fence \o <<"t", "y", "p", "e", "s", "c", "r", "i", "p", "t", "LF", "T">> >> }

\* text.replace(/^prefix\s*/, '')
StripPrefix(text, prefix) ==
  IF Len(text) >= Len(prefix) /\ SubSeq(text, 1, Len(prefix)) = prefix
  THEN TrimStart(SubSeq(text, Len(prefix) + 1, Len(text)))
  ELSE text

\* text.replace(/<fence>$/, '')
StripFenceAtEnd(text) ==
  IF Len(text) >= 3 /\ SubSeq(text, Len(text) - 2, Len(text)) = Fence
  THEN SubSeq(text, 1, Len(text) - 3)
  ELSE text

\* What generateTypeScriptInterfaces returns.
GenerateTypes(response) ==
  LET text == IF response = <<>> THEN <<>> ELSE response[1]
  IN  Trim(StripFenceAtEnd(
        StripPrefix(StripPrefix(text, Fence \o <<"t", "y", "p", "e", "s", "c", "r", "i", "p", "t">>),
                    Fence \o <<"t", "s">>)))

(***************************************************************************)
(* App: its state after construction.                                      *)
(***************************************************************************)
InitApp ==
  /\ input = DEFAULT_JSON
  /\ parseResult = ValidResult(Null)
  /\ recursiveConfig = [enabled |-> TRUE, maxDepth |-> 3]
  /\ displayData = Null
  /\ parsePending = TRUE
  /\ mounted = FALSE
  /\ effectParses = 0
  /\ inputSince = 0

InitHistory ==
  /\ history = <<>>
  /\ stored = Unread
  /\ timer = <<>>
  /\ now = 0
  /\ ticks = 0
  /\ nextId = 0

InitAi ==
  /\ aiLoading = "idle"
  /\ generatedTypes = <<>>
  /\ viewMode = "tree"
  /\ inFlight = [fix |-> <<>>, types |-> 0]
  /\ alertText = <<>>

InitSearch ==
  /\ searchQuery = <<>>
  /\ currentMatchIndex = 0
  /\ totalMatches = 0
  /\ searchTimer = FALSE
  /\ rendered = [data |-> Null, name |-> <<>>, query |-> <<>>,
                 hasMatch |-> FALSE, marks |-> 0]

NoCall ==
  /\ stack = <<>>
  /\ maxDepth = 3
  /\ retval = <<>>
  /\ topCall = [data |-> Null, depth |-> 0]
  /\ returned = {}
  /\ calls = 0
  /\ attempts = 0
  /\ parses = 0

Init == InitApp /\ InitHistory /\ InitAi /\ InitSearch /\ NoCall

(***************************************************************************)
(* App: rendering.  React runs the effects of a render before it handles   *)
(* the next update, and a render runs to its end: no handler runs while    *)
(* an effect is scheduled or processRecursive is on the stack.             *)
(***************************************************************************)
Idle == mounted /\ stack = <<>> /\ retval = <<>> /\ ~parsePending

\* !x
Falsy(x) ==
  \/ x.t = "null"
  \/ x.t = "bool" /\ ~x.b
  \/ x.t = "num" /\ x.n = 0
  \/ x.t = "str" /\ x.s = <<>>

\* Faulty variant of DisplaySkips: the enabled flag is not read.
DisplaySkipsFalsyOnly(data, config) == Falsy(data)

\* if (!parseResult.data || !recursiveConfig.enabled) return parseResult.data;
DisplaySkips(data, config) == Falsy(data) \/ ~config.enabled

\* The dependencies of the memo differ (Object.is): JSON.parse returns a
\* fresh object or array each time, a primitive is compared by value.
DataChanged(old, new) == IsObjectLike(new) \/ new # old

\* What is typed into the search field.
Queries == {<<>>, <<"a">>, <<"4", "2">>}

\* The search effect, useEffect(..., [searchQuery, input, displayData,
\* viewMode]): the cleanup of its last run clears the timer that is
\* pending; without a query both counters are reset, with one a timer of
\* 150 ms is started.
SearchEffect(query) ==
  IF query = <<>>
  THEN /\ totalMatches' = 0
       /\ currentMatchIndex' = 0
       /\ searchTimer' = FALSE
  ELSE /\ searchTimer' = TRUE
       /\ UNCHANGED <<totalMatches, currentMatchIndex>>

\* The search effect after a render: it runs if one of its dependencies
\* has changed.
AfterRender(changed) ==
  /\ IF changed THEN SearchEffect(searchQuery)
     ELSE UNCHANGED <<totalMatches, currentMatchIndex, searchTimer>>
  /\ UNCHANGED <<searchQuery, rendered>>

\* processRecursive as a function of its arguments.
RECURSIVE processRecursive(_, _, _)
RECURSIVE ProcessFields(_, _, _, _)

\* const result = {}; for (const key in data) result[key] = ...; from the
\* i-th key on.
ProcessFields(data, i, depth, m) ==
  IF i = 0 THEN EmptyObj
  ELSE SetProperty(ProcessFields(data, i - 1, depth, m), data.k[i],
                   processRecursive(data.v[i], DepthOfChild(depth), m))

processRecursive(data, depth, m) ==
  IF AtBound(depth, m) THEN data
  ELSE IF LooksLikeJson(data)
    THEN LET parsed == JSONParseOf(ParseArgument(data))
         IN  IF parsed.ok
             THEN processRecursive(parsed.val, DepthAfterParse(depth), m)
             ELSE data
  ELSE IF IsArray(data)
    THEN Arr([i \in 1..Len(data.a) |->
                processRecursive(data.a[i], DepthOfChild(depth), m)])
  ELSE IF IsObjectLike(data) THEN ProcessFields(data, Len(data.k), depth, m)
  ELSE data

\* The value of the memo for parseResult.data and recursiveConfig.
ResolveTopLevel(data, config) ==
  IF DisplaySkips(data, config) THEN data
  ELSE processRecursive(data, 0, config.maxDepth)

\* const displayData = useMemo(..., [parseResult.data, recursiveConfig, ...])
\* in the render that follows a change of parseResult.data or of
\* recursiveConfig: the memo returns parseResult.data, or calls
\* processRecursive and takes its value when it returns (DisplayReturn).
DisplayMemo(data, config) ==
  IF DisplaySkips(data, config)
  THEN /\ displayData' = data
       /\ stack' = <<>>
       /\ retval' = <<>>
       /\ returned' = {}
       /\ calls' = 0
       /\ attempts' = 0
       /\ parses' = 0
       /\ UNCHANGED <<maxDepth, topCall>>
  ELSE /\ StartCall(data, 0, config.maxDepth)
       /\ UNCHANGED displayData

\* processRecursive(parseResult.data, 0, maxDepth) returned to the memo.
DisplayReturn ==
  /\ Done
  /\ displayData' = retval[1]
  /\ retval' = <<>>
  /\ AfterRender(DataChanged(displayData, retval[1]))
  /\ UNCHANGED <<input, parseResult, recursiveConfig, parsePending,
                 stack, maxDepth, topCall, returned, calls, attempts, parses,
                 mounted, effectParses, inputSince, histVars, aiVars>>

(***************************************************************************)
(* App: the history effect, useEffect(..., []), of the first render.       *)
(***************************************************************************)
\* The effect when localStorage holds one of choices.
HistoryEffectFrom(choices) ==
  /\ ~mounted
  /\ mounted' = TRUE
  /\ \E found \in choices :
       IF found.kind = "list"
       THEN /\ history' = ValidHistory(found.items, now)
            /\ stored' = IF Len(history') # Len(found.items)
                         THEN StoredList(history')
                         ELSE found
       ELSE /\ stored' = found
            /\ UNCHANGED history
  /\ UNCHANGED <<input, parseResult, recursiveConfig, displayData, parsePending,
                 effectParses, inputSince, timer, now, ticks, nextId, aiVars,
                 searchVars, callVars>>

HistoryEffect == HistoryEffectFrom(StoredChoices)
\* The page is opened on a history that is full, or one item short of it.
HistoryEffectFull == HistoryEffectFrom(FullChoices)

(***************************************************************************)
(* App: the parse effect, useEffect(..., [input]).                         *)
(***************************************************************************)
\* Faulty variant of IsBlank: the input is not trimmed.
IsBlankNoTrim(text) == text = <<>>

\* !input.trim()
IsBlank(text) == Trim(text) = <<>>

\* What the effect passes to setParseResult.
ParseOutcome(parsed) ==
  IF parsed.ok THEN ValidResult(parsed.val) ELSE InvalidResult("SyntaxError")

ParseInput(text) ==
  IF IsBlank(text) THEN ValidResult(Null)
  ELSE ParseOutcome(JSONParseOf(text))

\* if (parsed && input.length > 5), reached when JSON.parse did not throw.
SavesToHistory(text, result) ==
  result.valid /\ ~Falsy(result.data) /\ Len(text) > 5

\* Faulty variant of ClearTimeout: the effect returns no cleanup.
ClearTimeoutMissing(pending) == pending

\* return () => clearTimeout(timer): before the effect runs again, the
\* cleanup of its last run clears the timer that run started, the only one
\* that can be pending.
ClearTimeout(pending) == <<>>

\* The cleanup of the effect's last run, then this run, which starts a
\* timer if the input is worth saving.
ParseEffect ==
  /\ mounted
  /\ parsePending
  /\ stack = <<>> /\ retval = <<>>
  /\ parsePending' = FALSE
  /\ effectParses' = IF IsBlank(input) THEN 0 ELSE 1
  /\ \E result \in {ParseInput(input)} :
       /\ parseResult' = result
       /\ timer' = IF SavesToHistory(input, result)
                   THEN Append(ClearTimeout(timer), Timer(input, now))
                   ELSE ClearTimeout(timer)
       /\ IF DataChanged(parseResult.data, result.data)
          THEN DisplayMemo(result.data, recursiveConfig)
          ELSE UNCHANGED <<displayData, callVars>>
  /\ AfterRender(TRUE)
  /\ UNCHANGED <<input, recursiveConfig, mounted, inputSince,
                 history, stored, now, ticks, nextId, aiVars>>

\* seq without its i-th element.
RemoveAt(seq, i) == SubSeq(seq, 1, i - 1) \o SubSeq(seq, i + 1, Len(seq))

\* Faulty variant of AlreadyExists: only the newest item is compared.
AlreadyExistsNewest(prev, content) ==
  prev # <<>> /\ prev[1].content = content

\* prev.some(h => h.content === input)
AlreadyExists(prev, content) ==
  \E j \in DOMAIN prev : prev[j].content = content

\* The callback of a timer that is due: setHistory(prev => ...).
AutoSave ==
  /\ Idle
  /\ \E i \in DOMAIN timer :
       /\ now >= timer[i].due
       /\ timer' = RemoveAt(timer, i)
       /\ IF AlreadyExists(history, timer[i].content)
          THEN UNCHANGED <<history, stored, nextId>>
          ELSE /\ history' = Take(<<HistoryItem(nextId + 1, now, timer[i].content)>>
                                    \o history,
                                  MAX_HISTORY_ITEMS)
               /\ stored' = StoredList(history')
               /\ nextId' = nextId + 1
  /\ UNCHANGED <<input, parseResult, recursiveConfig, displayData, parsePending,
                 mounted, searchVars, effectParses, inputSince, now, ticks, aiVars, callVars>>

\* Time passes.
Tick ==
  /\ Idle
  /\ ticks < MaxTicks
  /\ ticks' = ticks + 1
  /\ \E dt \in TickSteps : now + dt <= Horizon /\ now' = now + dt
  /\ UNCHANGED <<input, parseResult, recursiveConfig, displayData, parsePending,
                 mounted, searchVars, effectParses, inputSince, history, stored, timer, nextId,
                 aiVars, callVars>>

(***************************************************************************)
(* App: the handlers.                                                      *)
(***************************************************************************)
\* setInput(text): a state equal to the current one schedules nothing.
SetInputTo(text) ==
  /\ input' = text
  /\ parsePending' = (text # input)
  /\ inputSince' = IF text # input THEN now ELSE inputSince

\* <textarea onChange={(e) => setInput(e.target.value)} />
EditInputFrom(texts) ==
  /\ Idle
  /\ \E text \in texts : SetInputTo(text)
  /\ UNCHANGED <<parseResult, recursiveConfig, displayData,
                 mounted, searchVars, effectParses, histVars, aiVars, callVars>>

EditInput == EditInputFrom(Texts)
EditShortInput == EditInputFrom(ShortTexts)

\* handleFormat
HandleFormat ==
  /\ Idle
  /\ ~ButtonDisabled(FALSE, <<~parseResult.valid>>)
  /\ IF Falsy(parseResult.data)
     THEN UNCHANGED <<input, parsePending, inputSince>>
     ELSE SetInputTo(JSONStringifyPretty(parseResult.data))
  /\ UNCHANGED <<parseResult, recursiveConfig, displayData,
                 mounted, searchVars, effectParses, histVars, aiVars, callVars>>

\* handleMinify
HandleMinify ==
  /\ Idle
  /\ ~ButtonDisabled(FALSE, <<~parseResult.valid>>)
  /\ IF Falsy(parseResult.data)
     THEN UNCHANGED <<input, parsePending, inputSince>>
     ELSE SetInputTo(JSONStringify(parseResult.data))
  /\ UNCHANGED <<parseResult, recursiveConfig, displayData,
                 mounted, searchVars, effectParses, histVars, aiVars, callVars>>

\* handleClear
HandleClear ==
  /\ Idle
  /\ SetInputTo(<<>>)
  /\ generatedTypes' = <<>>
  /\ UNCHANGED <<parseResult, recursiveConfig, displayData,
                 mounted, searchVars, effectParses, histVars,
                 aiLoading, viewMode, inFlight, alertText, callVars>>

\* Faulty variant of ToggleRecursive: the memo does not depend on
\* recursiveConfig.
ToggleRecursiveStaleMemo ==
  /\ Idle
  /\ recursiveConfig' = [recursiveConfig EXCEPT !.enabled = ~recursiveConfig.enabled]
  /\ UNCHANGED <<input, parseResult, parsePending, displayData,
                 mounted, searchVars, effectParses, inputSince, histVars, aiVars, callVars>>

\* The Recursive button: setRecursiveConfig(prev => ({...prev, enabled: !prev.enabled}))
ToggleRecursive ==
  /\ Idle
  /\ recursiveConfig' = [recursiveConfig EXCEPT !.enabled = ~recursiveConfig.enabled]
  /\ DisplayMemo(parseResult.data, recursiveConfig')
  /\ AfterRender(DataChanged(displayData, displayData'))
  /\ UNCHANGED <<input, parseResult, parsePending,
                 mounted, effectParses, inputSince, histVars, aiVars>>

\* e.target.value.replace(/[^0-9]/g, '')
RECURSIVE DigitsOnly(_)
DigitsOnly(s) ==
  IF s = <<>> THEN <<>>
  ELSE IF Head(s) \in Digits THEN <<Head(s)>> \o DigitsOnly(Tail(s))
  ELSE DigitsOnly(Tail(s))

\* parseInt(digits) || 1 : parseInt('') is NaN, and NaN and 0 are falsy.
DepthValue(text) ==
  IF DigitsOnly(text) = <<>> \/ IndexVal(DigitsOnly(text)) = 0
  THEN 1
  ELSE IndexVal(DigitsOnly(text))

\* Faulty variant of ClampDepth: no upper limit.
ClampDepthNoMax(val) == Max(1, val)

\* Math.min(10, Math.max(1, val))
ClampDepth(val) == Min(10, Max(1, val))

\* What is typed into the depth field.
DepthTexts ==
  { <<>>, <<"0">>, <<"2">>, <<"x">>, <<"3", "a">>, <<"1", "0">>, <<"1", "1">>, <<"0", "5">> }

\* The depth field, rendered while recursiveConfig.enabled.
ChangeDepth ==
  /\ Idle
  /\ recursiveConfig.enabled
  /\ \E text \in DepthTexts :
       recursiveConfig' = [recursiveConfig EXCEPT !.maxDepth = ClampDepth(DepthValue(text))]
  /\ DisplayMemo(parseResult.data, recursiveConfig')
  /\ AfterRender(DataChanged(displayData, displayData'))
  /\ UNCHANGED <<input, parseResult, parsePending,
                 mounted, effectParses, inputSince, histVars, aiVars>>

(***************************************************************************)
(* App: the history panel.  Whether the panel is open (showHistory) is not *)
(* modelled: its handlers act on the history alone.                        *)
(***************************************************************************)
\* onSelect: setInput(item.content)
HistorySelect ==
  /\ Idle
  /\ \E i \in DOMAIN history : SetInputTo(history[i].content)
  /\ UNCHANGED <<parseResult, recursiveConfig, displayData,
                 mounted, searchVars, effectParses, histVars, aiVars, callVars>>

\* onDelete, on the item at one of positions.
HistoryDeleteAt(positions) ==
  /\ Idle
  /\ \E i \in positions \cap DOMAIN history :
       history' = SelectSeq(history, LAMBDA h : h.id # history[i].id)
  /\ stored' = StoredList(history')
  /\ UNCHANGED <<input, parseResult, recursiveConfig, displayData, parsePending,
                 mounted, searchVars, effectParses, inputSince, timer, now, ticks, nextId,
                 aiVars, callVars>>

HistoryDelete == HistoryDeleteAt(DOMAIN history)
\* The last item of a full history is deleted.
HistoryDeleteLast == HistoryDeleteAt({MAX_HISTORY_ITEMS})

\* Faulty variant of HistoryClear: localStorage is left as it is.
HistoryClearKeepsStorage ==
  /\ Idle
  /\ history' = <<>>
  /\ UNCHANGED <<input, parseResult, recursiveConfig, displayData, parsePending,
                 mounted, searchVars, effectParses, inputSince, stored, timer, now, ticks, nextId,
                 aiVars, callVars>>

\* onClear
HistoryClear ==
  /\ Idle
  /\ history' = <<>>
  /\ stored' = Absent
  /\ UNCHANGED <<input, parseResult, recursiveConfig, displayData, parsePending,
                 mounted, searchVars, effectParses, inputSince, timer, now, ticks, nextId,
                 aiVars, callVars>>

(***************************************************************************)
(* App: the AI actions.  A handler runs to its await; what follows the     *)
(* await runs when the call of the service settles.                        *)
(***************************************************************************)
\* handleAiFix, to the await.  The button is rendered while
\* !parseResult.valid && input.
HandleAiFix ==
  /\ Idle
  /\ ~parseResult.valid /\ input # <<>>
  /\ ~ButtonDisabled(aiLoading = "fix", <<>>)
  /\ Len(inFlight.fix) < MaxInFlight
  /\ IF IsBlank(input)
     THEN UNCHANGED <<aiLoading, inFlight>>
     ELSE /\ aiLoading' = "fix"
          /\ inFlight' = [inFlight EXCEPT !.fix = Append(@, input)]
  /\ UNCHANGED <<input, parseResult, recursiveConfig, displayData, parsePending,
                 mounted, searchVars, effectParses, inputSince, histVars,
                 generatedTypes, viewMode, alertText, callVars>>

\* fixInvalidJson resolved: setInput(fixed), then the finally block.
AiFixResolve ==
  /\ Idle
  /\ \E i \in DOMAIN inFlight.fix :
       inFlight' = [inFlight EXCEPT !.fix = RemoveAt(@, i)]
  /\ \E response \in FixResponses : SetInputTo(FixInvalidJson(response))
  /\ aiLoading' = "idle"
  /\ UNCHANGED <<parseResult, recursiveConfig, displayData,
                 mounted, searchVars, effectParses, histVars,
                 generatedTypes, viewMode, alertText, callVars>>

\* Faulty variant of AiFixReject: no finally block.
AiFixRejectKeepsLoading ==
  /\ Idle
  /\ \E i \in DOMAIN inFlight.fix :
       inFlight' = [inFlight EXCEPT !.fix = RemoveAt(@, i)]
  /\ alertText' = <<"AI Repair failed.">>
  /\ UNCHANGED <<input, parseResult, recursiveConfig, displayData, parsePending,
                 mounted, searchVars, effectParses, inputSince, histVars,
                 aiLoading, generatedTypes, viewMode, callVars>>

\* fixInvalidJson rejected (no API key, or generateContent failed): the
\* catch block, then the finally block.
AiFixReject ==
  /\ Idle
  /\ \E i \in DOMAIN inFlight.fix :
       inFlight' = [inFlight EXCEPT !.fix = RemoveAt(@, i)]
  /\ alertText' = <<"AI Repair failed.">>
  /\ aiLoading' = "idle"
  /\ UNCHANGED <<input, parseResult, recursiveConfig, displayData, parsePending,
                 mounted, searchVars, effectParses, inputSince, histVars,
                 generatedTypes, viewMode, callVars>>

\* handleGenerateTypes, to the await.
HandleGenerateTypes ==
  /\ Idle
  /\ ~ButtonDisabled(aiLoading = "types", <<~parseResult.valid>>)
  /\ inFlight.types < MaxInFlight
  /\ IF ~parseResult.valid
     THEN UNCHANGED <<aiLoading, inFlight>>
     ELSE /\ aiLoading' = "types"
          /\ inFlight' = [inFlight EXCEPT !.types = @ + 1]
  /\ UNCHANGED <<input, parseResult, recursiveConfig, displayData, parsePending,
                 mounted, searchVars, effectParses, inputSince, histVars,
                 generatedTypes, viewMode, alertText, callVars>>

\* generateTypeScriptInterfaces resolved.
TypesResolve ==
  /\ Idle
  /\ inFlight.types > 0
  /\ inFlight' = [inFlight EXCEPT !.types = @ - 1]
  /\ \E response \in TypeResponses : generatedTypes' = <<GenerateTypes(response)>>
  /\ viewMode' = "code"
  /\ aiLoading' = "idle"
  /\ AfterRender(viewMode # "code")
  /\ UNCHANGED <<input, parseResult, recursiveConfig, displayData, parsePending,
                 mounted, effectParses, inputSince, histVars, alertText, callVars>>

\* generateTypeScriptInterfaces rejected.
TypesReject ==
  /\ Idle
  /\ inFlight.types > 0
  /\ inFlight' = [inFlight EXCEPT !.types = @ - 1]
  /\ alertText' = <<"Type generation failed.">>
  /\ aiLoading' = "idle"
  /\ UNCHANGED <<input, parseResult, recursiveConfig, displayData, parsePending,
                 mounted, searchVars, effectParses, inputSince, histVars,
                 generatedTypes, viewMode, callVars>>

\* The Tree tab.
ShowTree ==
  /\ Idle
  /\ viewMode' = "tree"
  /\ AfterRender(viewMode # "tree")
  /\ UNCHANGED <<input, parseResult, recursiveConfig, displayData, parsePending,
                 mounted, effectParses, inputSince, histVars,
                 aiLoading, generatedTypes, inFlight, alertText, callVars>>

\* The Raw tab.
ShowRaw ==
  /\ Idle
  /\ viewMode' = "code"
  /\ generatedTypes' = <<>>
  /\ AfterRender(viewMode # "code")
  /\ UNCHANGED <<input, parseResult, recursiveConfig, displayData, parsePending,
                 mounted, effectParses, inputSince, histVars,
                 aiLoading, inFlight, alertText, callVars>>

(***************************************************************************)
(* App: the search.                                                        *)
(***************************************************************************)
\* <input value={searchQuery} onChange={(e) => setSearchQuery(...)} />, and
\* the X button, which sets the empty query.
SetSearchQuery ==
  /\ Idle
  /\ \E query \in Queries :
       /\ searchQuery' = query
       /\ IF query # searchQuery THEN SearchEffect(query)
          ELSE UNCHANGED <<totalMatches, currentMatchIndex, searchTimer>>
  /\ UNCHANGED <<input, parseResult, recursiveConfig, displayData, parsePending,
                 mounted, effectParses, inputSince, histVars, aiVars, callVars,
                 rendered>>

\* The callback of the search timer: the elements of the page that are
\* marked data-search-match are counted.
SearchTimerFires ==
  /\ Idle
  /\ searchTimer
  /\ searchTimer' = FALSE
  /\ \E matches \in 0..MaxMatches :
       /\ totalMatches' = matches
       /\ currentMatchIndex' = IF matches > 0 THEN 1 ELSE 0
  /\ UNCHANGED <<input, parseResult, recursiveConfig, displayData, parsePending,
                 mounted, effectParses, inputSince, histVars, aiVars, callVars,
                 searchQuery, rendered>>

\* Faulty variant of NextIndex: the index does not wrap.
NextIndexNoWrap(direction, current, total) ==
  IF direction = "next" THEN current ELSE current - 2

\* navigateSearch: the index, from 0, of the match to go to.
NextIndex(direction, current, total) ==
  LET nextIndex == IF direction = "next" THEN current ELSE current - 2
      wrapped == IF nextIndex >= total THEN 0 ELSE nextIndex
  IN  IF wrapped < 0 THEN total - 1 ELSE wrapped

\* navigateSearch(direction), from the two buttons and from Enter and
\* Shift+Enter in the search field.
NavigateSearch ==
  /\ Idle
  /\ \E direction \in {"next", "prev"} :
       IF totalMatches = 0
       THEN UNCHANGED currentMatchIndex
       ELSE currentMatchIndex' =
              NextIndex(direction, currentMatchIndex, totalMatches) + 1
  /\ UNCHANGED <<input, parseResult, recursiveConfig, displayData, parsePending,
                 mounted, effectParses, inputSince, histVars, aiVars, callVars,
                 searchQuery, totalMatches, searchTimer, rendered>>

(***************************************************************************)
(* JsonTree and HighlightText.  A node is rendered with its subtree        *)
(* expanded (isExpanded true in every node below it).                      *)
(***************************************************************************)
UpperCase == <<"A", "B", "C", "D", "E", "F", "G", "H", "I", "J", "K", "L", "M",
               "N", "O", "P", "Q", "R", "S", "T", "U", "V", "W", "X", "Y", "Z">>
LowerCase == <<"a", "b", "c", "d", "e", "f", "g", "h", "i", "j", "k", "l", "m",
               "n", "o", "p", "q", "r", "s", "t", "u", "v", "w", "x", "y", "z">>

\* String.prototype.toLowerCase
ToLowerCase(s) ==
  [i \in DOMAIN s |->
     IF \E j \in DOMAIN UpperCase : UpperCase[j] = s[i]
     THEN LowerCase[CHOOSE j \in DOMAIN UpperCase : UpperCase[j] = s[i]]
     ELSE s[i]]

\* s.includes(q)
Includes(s, q) ==
  \E i \in 1..(Len(s) - Len(q) + 1) : SubSeq(s, i, i + Len(q) - 1) = q

\* String(data), data.toString() of a number or a boolean.
toString(data) ==
  IF data.t = "bool"
  THEN IF data.b THEN <<"t", "r", "u", "e">> ELSE <<"f", "a", "l", "s", "e">>
  ELSE IF data.inf
  THEN IF data.n < 0 THEN <<"-", "I", "n", "f", "i", "n", "i", "t", "y">>
       ELSE <<"I", "n", "f", "i", "n", "i", "t", "y">>
  ELSE NumChars(data)

\* Object.entries(data): of an array the indices as strings with the
\* elements, of an object the own keys with their values.
Entries(data) ==
  IF IsArray(data)
  THEN [i \in DOMAIN data.a |-> [key |-> NatChars(i - 1), value |-> data.a[i]]]
  ELSE [i \in DOMAIN data.k |-> [key |-> data.k[i], value |-> data.v[i]]]

RECURSIVE containsMatch(_, _, _)
containsMatch(data, query, keyName) ==
  IF query = <<>> THEN FALSE
  ELSE IF keyName # <<>> /\ Includes(ToLowerCase(keyName), ToLowerCase(query))
    THEN TRUE
  ELSE IF IsString(data) /\ Includes(ToLowerCase(data.s), ToLowerCase(query))
    THEN TRUE
  ELSE IF data.t \in {"num", "bool"} /\ Includes(toString(data), ToLowerCase(query))
    THEN TRUE
  ELSE IF IsObjectLike(data)
    THEN \E i \in DOMAIN Entries(data) :
           containsMatch(Entries(data)[i].value, query, Entries(data)[i].key)
  ELSE FALSE

\* HighlightText: the parts of text.split(new RegExp('(' + escapedQuery +
\* ')', 'gi')) that are rendered with data-search-match, from index i on:
\* the occurrences of the query, from left to right, none overlapping
\* another, whatever the case of the letters.
RECURSIVE MatchesFrom(_, _, _)
MatchesFrom(text, query, i) ==
  IF i + Len(query) - 1 > Len(text) THEN 0
  ELSE IF ToLowerCase(SubSeq(text, i, i + Len(query) - 1)) = ToLowerCase(query)
    THEN 1 + MatchesFrom(text, query, i + Len(query))
  ELSE MatchesFrom(text, query, i + 1)

HighlightText(text, query) ==
  IF query = <<>> THEN 0 ELSE MatchesFrom(text, query, 1)

\* renderKey
RenderKey(name, query) ==
  IF name = <<>> THEN 0 ELSE HighlightText(name, query)

\* renderValue
RenderValue(val, query) ==
  IF val.t \in {"bool", "num"} THEN HighlightText(toString(val), query)
  ELSE IF IsString(val) THEN HighlightText(val.s, query)
  ELSE 0

\* The elements marked as matches in <JsonTree data name searchQuery />.
\* A child is given name={isArray ? undefined : key}.
RECURSIVE JsonTree(_, _, _)
RECURSIVE RenderChildren(_, _, _)
RenderChildren(data, query, i) ==
  IF i = 0 THEN 0
  ELSE RenderChildren(data, query, i - 1)
       + JsonTree(Entries(data)[i].value,
                  IF IsArray(data) THEN <<>> ELSE Entries(data)[i].key,
                  query)

JsonTree(data, name, query) ==
  IF ~IsObjectLike(data) THEN RenderKey(name, query) + RenderValue(data, query)
  ELSE RenderKey(name, query) + RenderChildren(data, query, Len(Entries(data)))

\* The values, names and queries a node is rendered with.
TreeData ==
  {Null, Bool(TRUE), Bool(FALSE), Num(10), Num(-1), Infinity(1), Infinity(-1),
   Str(<<>>), Str(<<"T", "r", "u", "e">>), Str(<<"e", "e", "e">>),
   Str(<<"{", "}">>), Arr(<<>>), EmptyObj, Arr(<<Bool(TRUE)>>),
   Arr(<<Null, Arr(<<Str(<<"1", "0">>)>>)>>),
   Obj1(<<"A", "0">>, Arr(<<Num(10), EmptyObj>>)),
   Obj1(<<"k", "e", "y">>, Null),
   Obj1(<<"a">>, Obj1(<<"I", "N", "F">>, Str(<<"t", "r", "U", "E">>)))}
TreeNames == {<<>>, <<"0">>, <<"k", "E", "y">>}
TreeQueries == {<<>>, <<"0">>, <<"1">>, <<"e">>, <<"T", "R">>, <<"i", "n", "f">>, <<"{">>}

\* A node is rendered: const hasMatch = useMemo(() => containsMatch(data,
\* searchQuery, name), ...), and what it returns.
RenderTree ==
  /\ \E data \in TreeData, name \in TreeNames, query \in TreeQueries :
       rendered' = [data |-> data, name |-> name, query |-> query,
                    hasMatch |-> containsMatch(data, query, name),
                    marks |-> JsonTree(data, name, query)]
  /\ UNCHANGED <<input, parseResult, recursiveConfig, displayData, parsePending,
                 mounted, effectParses, inputSince, histVars, aiVars, callVars,
                 searchQuery, currentMatchIndex, totalMatches, searchTimer>>

(***************************************************************************)
(* The editor: the effects, the resolver and the handlers that change the  *)
(* input or the recursion settings.                                        *)
(***************************************************************************)
Next ==
  \/ HistoryEffect
  \/ ParseEffect
  \/ DisplayReturn
  \/ ProcessRecursiveStep
  \/ EditInput
  \/ HandleFormat
  \/ HandleMinify
  \/ HandleClear
  \/ ToggleRecursive
  \/ ChangeDepth
  \/ HistorySelect

Spec == Init /\ [][Next]_vars

(***************************************************************************)
(* The history: the effects, the auto-save timer, the clock and the        *)
(* history panel, on the short texts.                                      *)
(***************************************************************************)
NextHistory ==
  \/ HistoryEffect
  \/ ParseEffect
  \/ DisplayReturn
  \/ ProcessRecursiveStep
  \/ EditShortInput
  \/ AutoSave
  \/ Tick
  \/ HistorySelect
  \/ HistoryDelete
  \/ HistoryClear

SpecHistory == Init /\ [][NextHistory]_vars

(***************************************************************************)
(* The AI actions: the effects, the calls of the service and the view      *)
(* tabs, on the short texts.                                               *)
(***************************************************************************)
NextAi ==
  \/ HistoryEffect
  \/ ParseEffect
  \/ DisplayReturn
  \/ ProcessRecursiveStep
  \/ EditShortInput
  \/ HandleClear
  \/ HandleAiFix
  \/ AiFixResolve
  \/ AiFixReject
  \/ HandleGenerateTypes
  \/ TypesResolve
  \/ TypesReject
  \/ ShowTree
  \/ ShowRaw

SpecAi == Init /\ [][NextAi]_vars

(***************************************************************************)
(* The history at its capacity: the page is opened on a history of         *)
(* MAX_HISTORY_ITEMS items, or one less.                                   *)
(***************************************************************************)
NextFull ==
  \/ HistoryEffectFull
  \/ ParseEffect
  \/ DisplayReturn
  \/ ProcessRecursiveStep
  \/ EditShortInput
  \/ AutoSave
  \/ Tick
  \/ HistoryDeleteLast
  \/ HistoryClear

SpecFull == Init /\ [][NextFull]_vars

(***************************************************************************)
(* The search: the query, the counters and the navigation, with the edits  *)
(* and the tabs that make the search effect run again.                     *)
(***************************************************************************)
NextSearch ==
  \/ HistoryEffect
  \/ ParseEffect
  \/ DisplayReturn
  \/ ProcessRecursiveStep
  \/ EditShortInput
  \/ ShowTree
  \/ ShowRaw
  \/ SetSearchQuery
  \/ SearchTimerFires
  \/ NavigateSearch

SpecSearch == Init /\ [][NextSearch]_vars

(***************************************************************************)
(* JsonTree on its own: a node rendered with any value, name and query.    *)
(***************************************************************************)
SpecTree == Init /\ [][RenderTree]_vars

(***************************************************************************)
(* processRecursive on its own: one call on any value, at any depth.       *)
(***************************************************************************)
\* processRecursive(data, depth, m) is called.
BeginCall ==
  /\ stack = <<>>
  /\ retval = <<>>
  /\ \E data \in Inputs, depth \in 0..MaxMaxDepth, m \in 1..MaxMaxDepth :
       StartCall(data, depth, m)
  /\ UNCHANGED appVars

NextCall ==
  \/ BeginCall
  \/ ProcessRecursiveStep

SpecCall == Init /\ [][NextCall]_vars

\* The call runs on: JavaScript runs a function to its end.
FairCall == SpecCall /\ WF_vars(ProcessRecursiveStep)

(***************************************************************************)
(* Properties.  Those of processRecursive are stated of SpecCall, where    *)
(* topCall is any value at any depth; those of App of Spec.                *)
(***************************************************************************)
TopLevel == topCall.depth = 0
Result == retval[1]
\* The decodes the innermost invocation is nested in.
NestedDecodes == Cardinality({i \in 1..Len(stack) : stack[i].pc = "try"})
\* The first character that is not whitespace, "" if there is none.
FirstVisible(s) == IF Trim(s) = <<>> THEN "" ELSE Trim(s)[1]
StartsLikeJson(s) == FirstVisible(s) \in {"{", "["}
\* x is a string that is the text of an object or an array.
DecodableString(x) == IsString(x) /\ StartsLikeJson(x.s) /\ JSONParse(x.s).ok
\* x is a string that starts with { or [ and is not valid JSON.
BrokenString(x) ==
  IsString(x) /\ x.s # <<>> /\ x.s[1] \in {"{", "["} /\ ~JSONParse(x.s).ok
\* The invocation on data at depth has returned out.
Returned(data, depth, out) ==
  [data |-> data, depth |-> depth, out |-> out] \in returned

\* C1: the top-level call processRecursive(value, 0, maxDepth) terminates:
\* it reaches its return, whatever the value.
C1_Terminates == (Running /\ TopLevel) ~> Done

\* C1 (witness): a top-level call has returned after decoding a string
\* whose content held an encoded string again.
C1_Witness == Done /\ TopLevel /\ parses >= 2 /\ topCall.data \in Chains

\* C2 (as stated): one top-level call makes at most maxDepth successful
\* JSON.parse calls.
C2_TotalDecodes == TopLevel => parses <= maxDepth

\* C2 (amended): in one top-level call at most maxDepth successful decodes
\* are nested in one another.
C2_NestedDecodes == TopLevel => NestedDecodes <= maxDepth

\* C2 (witness): maxDepth decodes are nested and the object reached holds
\* the text of an object or array again, which stays encoded.
C2_Witness ==
  /\ TopLevel
  /\ AtCall
  /\ NestedDecodes = maxDepth
  /\ Top.data.t = "obj"
  /\ \E i \in 1..Len(Top.data.v) : DecodableString(Top.data.v[i])

\* C3: with currentDepth >= maxDepth the call returns its argument, and it
\* neither parses nor makes another invocation.
C3_IdentityAtBound ==
  topCall.depth >= maxDepth =>
    /\ attempts = 0
    /\ calls = 1
    /\ stack \in {<<>>, <<Frame(topCall.data, topCall.depth)>>}
    /\ Done => Result = topCall.data

\* C3 (witness): such a call has returned, on an object that holds the text
\* of an object.
C3_Witness ==
  /\ Done
  /\ topCall.depth >= maxDepth
  /\ topCall.data = ChainInput(2, Obj1(<<"z">>, Num(1)), <<"x">>)

\* C4: while recursiveConfig.enabled is false, displayData is
\* parseResult.data and processRecursive is not called.
C4_DisabledNoOp ==
  ~recursiveConfig.enabled =>
    /\ displayData = parseResult.data
    /\ stack = <<>>
    /\ retval = <<>>
    /\ calls = 0
    /\ attempts = 0

\* C4 (witness): the default document, which holds encoded strings, is
\* parsed and shown with the config disabled.
C4_Witness ==
  /\ ~recursiveConfig.enabled
  /\ ~parsePending
  /\ parseResult = ValidResult(JSONParse(DEFAULT_JSON).val)

\* What a chain of k encodings of base becomes after m decodes.
RECURSIVE Unwrapped(_, _, _)
Unwrapped(k, m, base) ==
  IF m = 0 THEN Layer(k, base)
  ELSE IF k = 1 THEN base
  ELSE Obj1(<<"y">>, Unwrapped(k - 1, m - 1, base))

ChainUnwrapped(key) ==
  \A k \in 1..MaxChain, base \in ChainBases :
    (Done /\ topCall = [data |-> ChainInput(k, base, key), depth |-> 0])
      => Result = Obj1(key, Unwrapped(k, maxDepth, base))

\* C5: a field holding a chain of k encodings is unwrapped min(k, maxDepth)
\* layers, whatever the field is called.
C5_ChainUnwrapped == \A key \in ChainKeys : ChainUnwrapped(key)

\* C6: a string whose first non-whitespace character is neither { nor [ is
\* returned unchanged at every depth, and no parse is attempted on it.
C6_PlainStringUnchanged ==
  /\ (IsString(topCall.data) /\ ~StartsLikeJson(topCall.data.s)) =>
       /\ attempts = 0
       /\ calls = 1
       /\ Done => Result = topCall.data
  /\ \A r \in returned :
       (IsString(r.data) /\ ~StartsLikeJson(r.data.s)) => r.out = r.data

\* C6 (witness): the call on the string 42 has returned, below the bound.
C6_Witness ==
  Done /\ topCall.data = Str(<<"4", "2">>) /\ topCall.depth < maxDepth

\* C7: a string that starts with { or [ and is not valid JSON is returned
\* as it is; the invocations on the elements and fields beside it are made
\* at the depth of the array or object, and a decodable string after it is
\* decoded.
C7_BrokenStringUnchanged ==
  /\ \A r \in returned : BrokenString(r.data) => r.out = r.data
  /\ BrokenString(topCall.data) => parses = 0 /\ calls = 1
  /\ \A i \in 1..(Len(stack) - 1) :
       stack[i].pc \in {"map", "forin"} => stack[i + 1].depth = stack[i].depth
  /\ (Done /\ IsArray(topCall.data) /\ topCall.depth < maxDepth) =>
       \A i \in 1..Len(topCall.data.a), j \in 1..Len(topCall.data.a) :
         (i < j /\ BrokenString(topCall.data.a[i]) /\ topCall.data.a[j] = Decodable)
           => /\ Result.a[i] = topCall.data.a[i]
              /\ Result.a[j] = Arr(<<Num(1)>>)

\* C7 (witness): the call on an array of a broken string, a value and a
\* decodable string has returned, below the bound.
C7_Witness ==
  Done /\ topCall.data = Wrap("arr3", Null) /\ topCall.depth < maxDepth

\* C8: below the bound, the invocation on an array returns an array of the
\* same length whose i-th element is what the invocation on the i-th
\* element, at the same depth, returned.
C8_ArrayElementwise ==
  \A r \in returned :
    (IsArray(r.data) /\ r.depth < maxDepth) =>
      /\ IsArray(r.out)
      /\ Len(r.out.a) = Len(r.data.a)
      /\ \A i \in 1..Len(r.data.a) : Returned(r.data.a[i], r.depth, r.out.a[i])

\* C8 (witness): the call on an array of several elements has returned an
\* array that differs from it.
C8_Witness ==
  /\ Done
  /\ IsArray(topCall.data)
  /\ Len(topCall.data.a) >= 2
  /\ topCall.depth < maxDepth
  /\ Result # topCall.data

\* C9: below the bound, the invocation on an object returns an object with
\* the same keys in the same order, each value what the invocation on the
\* field's value, at the same depth, returned.
C9_ObjectKeysKept ==
  \A r \in returned :
    (r.data.t = "obj" /\ r.depth < maxDepth) =>
      /\ r.out.t = "obj"
      /\ r.out.k = r.data.k
      /\ \A i \in 1..Len(r.data.k) : Returned(r.data.v[i], r.depth, r.out.v[i])

\* No string in x has a trimmed form that starts with { or [.
RECURSIVE Plain(_)
Plain(x) ==
  CASE x.t = "str" -> ~StartsLikeJson(x.s)
    [] x.t = "arr" -> \A i \in 1..Len(x.a) : Plain(x.a[i])
    [] x.t = "obj" -> \A i \in 1..Len(x.v) : Plain(x.v[i])
    [] OTHER -> TRUE

\* C10: the top-level call on a value that holds no string starting with
\* { or [ returns a value equal to it, however deeply it is nested.
C10_PlainUnchanged == (Done /\ TopLevel /\ Plain(topCall.data)) => Result = topCall.data

\* What the invocation of a frame that waits for a call passed to it.
Argument(frame) ==
  CASE frame.pc = "map" -> frame.data.a[frame.i]
    [] frame.pc = "forin" -> frame.data.v[frame.i]
    [] frame.pc = "try" -> JSONParseOf(ParseArgument(frame.data)).val

\* C11: processRecursive does not mutate its input.  While the call runs,
\* the value the outermost invocation holds is the value the call was given
\* and every inner invocation holds the part of its caller's value it was
\* called on; when the call has returned, the outermost invocation
\* returned holding the value the call was given.
C11_InputNotMutated ==
  /\ Running =>
       /\ stack[1].data = topCall.data
       /\ \A i \in 2..Len(stack) : stack[i].data = Argument(stack[i - 1])
  /\ Done =>
       \E r \in returned :
         r.data = topCall.data /\ r.depth = topCall.depth /\ r.out = Result

\* C11 witness: a call on an object returned a different value.
C11_Witness ==
  /\ Done
  /\ topCall.data.t = "obj"
  /\ Result # topCall.data
  /\ \E i \in 1..Len(topCall.data.v) : IsObjectLike(topCall.data.v[i])

\* C12: recursiveConfig.maxDepth starts at 3 and is in 1..10 before and
\* after every step, whatever is typed into the depth field; a step that
\* toggles enabled leaves maxDepth as it was.
C12_DepthInRange ==
  /\ recursiveConfig.maxDepth = 3
  /\ [][/\ recursiveConfig.maxDepth \in 1..10
        /\ recursiveConfig'.maxDepth \in 1..10
        /\ recursiveConfig'.enabled # recursiveConfig.enabled
             => recursiveConfig'.maxDepth = recursiveConfig.maxDepth]_vars

\* C12 witness: the depth field was edited to the largest depth and the
\* resolver was then switched off.
C12_Witness == recursiveConfig.maxDepth = 10 /\ ~recursiveConfig.enabled /\ Idle

\* C13: once the parse effect has run on an input that is empty after
\* trimming, the parse result is valid with data null and no error, and the
\* effect did not call JSON.parse.
C13_BlankIsValidEmpty ==
  (mounted /\ ~parsePending /\ Trim(input) = <<>>) =>
    /\ parseResult = [valid |-> TRUE, data |-> Null, error |-> <<>>]
    /\ effectParses = 0

\* C13 witness: the effect has run on an input of whitespace only.
C13_Witness ==
  /\ Idle
  /\ input # <<>>
  /\ Trim(input) = <<>>
  /\ parseResult.valid

\* C14: parseResult is always either valid without an error, or invalid
\* with data null and a non-empty message; while the result is invalid and
\* rendering is through, no tree is displayed.
C14_ResultShape ==
  /\ \/ parseResult.valid /\ parseResult.error = <<>>
     \/ /\ ~parseResult.valid
        /\ parseResult.data = Null
        /\ Len(parseResult.error) = 1
        /\ parseResult.error[1] # ""
  /\ (Idle /\ ~parseResult.valid) => displayData = Null

\* C14 witness: the effect has run on a text that JSON.parse rejects.
C14_Witness ==
  /\ Idle
  /\ ~parseResult.valid
  /\ ~JSONParse(input).ok
  /\ displayData = Null

\* C15: when the parse effect runs on an input that is the serialization,
\* minified or formatted, of the value parsed before (as it is after Minify
\* and after Format), the new result is valid and its value equals that
\* value.
C15_RoundTrip ==
  [][(/\ parsePending /\ ~parsePending'
      /\ parseResult.valid
      /\ input \in {JSONStringify(parseResult.data),
                    JSONStringifyPretty(parseResult.data)})
       => (parseResult'.valid /\ parseResult'.data = parseResult.data)]_vars

\* C16: the step that delivers the failure of an AI call shows an alert,
\* leaves input, parseResult, displayData and generatedTypes as they were
\* and sets aiLoading to idle.
C16_FailureKeepsState ==
  [][(AiFixReject \/ TypesReject) =>
       /\ alertText' # <<>>
       /\ input' = input
       /\ parseResult' = parseResult
       /\ displayData' = displayData
       /\ generatedTypes' = generatedTypes
       /\ aiLoading' = "idle"]_vars

\* C16 witness: the repair of an invalid input has failed: the alert was
\* shown, the input is still there and still invalid, nothing is loading.
C16_Witness ==
  /\ Idle
  /\ alertText = <<"AI Repair failed.">>
  /\ ~parseResult.valid
  /\ aiLoading = "idle"
  /\ inFlight.fix = <<>>

\* C17: when rendering is through, parseResult is the parse of the current
\* input, displayData is what the resolver makes of parseResult.data under
\* the current recursiveConfig, and an invalid input displays no tree.
C17_DisplayIsCurrent ==
  Idle =>
    /\ parseResult = ParseInput(input)
    /\ displayData = ResolveTopLevel(parseResult.data, recursiveConfig)
    /\ ~parseResult.valid => displayData = Null

\* C17 witness: after an edit and changes of the configuration the tree
\* shown is resolved from the current input at the current depth.
C17_Witness ==
  /\ Idle
  /\ input # DEFAULT_JSON
  /\ recursiveConfig.enabled
  /\ recursiveConfig.maxDepth = 2
  /\ displayData # parseResult.data
  /\ displayData # ResolveTopLevel(parseResult.data, [enabled |-> TRUE, maxDepth |-> 3])

\* The ids of the items of a history list.
Ids(list) == {list[i].id : i \in DOMAIN list}

\* C18: at most one save is pending, and once the parse effect has run it
\* is for the current input; a step that adds an item to the history adds
\* one item, whose content is the current input, which JSON.parse accepts
\* and which has not changed for the 3000 ms before the step.
C18_SavedAfterInactivity ==
  /\ [](/\ Len(timer) <= 1
        /\ (timer # <<>> /\ ~parsePending) => timer[1].content = input)
  /\ [][(mounted /\ Ids(history') \ Ids(history) # {}) =>
          /\ Len(history') = Len(history) + 1
          /\ history'[1].id \notin Ids(history)
          /\ history'[1].content = input
          /\ JSONParse(input).ok
          /\ parseResult.valid
          /\ now - inputSince >= SaveDelay]_vars

\* C18 witness: an item was saved in this session, and a later edit has a
\* save pending that is not yet due.
C18_Witness ==
  /\ Idle
  /\ \E i \in DOMAIN history : history[i].id > 0
  /\ Len(timer) = 1
  /\ now < timer[1].due
  /\ \A i \in DOMAIN history : history[i].content # input

\* The item is more than MAX_HISTORY_DAYS days old.
Expired(item) == now - item.timestamp > MAX_HISTORY_DAYS * DayMs

\* C19: once the history effect has run, neither the history nor the
\* stored history holds an item that is more than 7 days old.
C19_NoExpiredItems ==
  mounted =>
    /\ \A i \in DOMAIN history : ~Expired(history[i])
    /\ \A i \in DOMAIN stored.items : ~Expired(stored.items[i])

\* C20: the call, below the bound, on a string whose trimmed form is the
\* text of an object or an array returns what processRecursive returns for
\* the trimmed string at the same depth.
C20_DecodesTrimmedForm ==
  (/\ Done
   /\ IsString(topCall.data)
   /\ topCall.depth < maxDepth
   /\ StartsLikeJson(topCall.data.s)
   /\ JSONParse(Trim(topCall.data.s)).ok)
    => Result = processRecursive(Str(Trim(topCall.data.s)), topCall.depth, maxDepth)

\* The successful decodes on the path from the root to the i-th invocation
\* of the stack: the invocations below it that wait in their try block.
DecodesAbove(i) == Cardinality({j \in 1..(i - 1) : stack[j].pc = "try"})

\* C21: in a top-level call at depth 0 the currentDepth of every invocation
\* is the number of successful decodes on the path from the root to it, and
\* it is in 0..maxDepth; a decode that failed left no invocation behind.
C21_DepthCountsDecodes ==
  TopLevel =>
    /\ \A i \in 1..Len(stack) :
         /\ stack[i].depth = DecodesAbove(i)
         /\ stack[i].depth \in 0..maxDepth
    /\ \A r \in returned : r.depth \in 0..maxDepth
    /\ parses <= attempts

\* C21 witness: an invocation at depth 2 was reached through two decodes
\* and through array elements or object fields, after a decode has failed.
C21_Witness ==
  /\ TopLevel
  /\ AtCall
  /\ Top.depth = 2
  /\ Len(stack) >= 5
  /\ attempts > parses

\* The elements of an array, the values of the own fields of an object.
Children(x) ==
  IF IsArray(x) THEN {x.a[i] : i \in DOMAIN x.a}
  ELSE IF x.t = "obj" THEN {x.v[i] : i \in DOMAIN x.v}
  ELSE {}

\* C22: in a top-level call at depth 0 with maxDepth m no invocation is
\* deeper than m.  A string that starts, after trimming, with { or [ and
\* that JSON.parse accepts is returned as it is only at depth m; below m
\* the invocation on it returns the resolved structure of its parsed value.
\* A value returned below m holds such a string as an element or field only
\* when it is the value parsed from a string at depth m - 1, which is at
\* depth m and is returned as parsed.
C22_NoEarlyStop ==
  TopLevel =>
    \A r \in returned :
      /\ r.depth <= maxDepth
      /\ (DecodableString(r.data) /\ r.out = r.data) => r.depth = maxDepth
      /\ (DecodableString(r.data) /\ r.depth < maxDepth) =>
           /\ IsObjectLike(r.out)
           /\ r.out = processRecursive(JSONParse(r.data.s).val, r.depth + 1, maxDepth)
      /\ (r.depth < maxDepth /\ \E c \in Children(r.out) : DecodableString(c)) =>
           /\ IsString(r.data)
           /\ r.depth = maxDepth - 1
           /\ r.out = JSONParse(r.data.s).val

\* C22 witness: the call has returned an object; a string in it was decoded
\* at depth maxDepth - 1 and the encoded string found inside it, under
\* maxDepth decodes, stays a string of the result.
C22_Witness ==
  /\ Done
  /\ TopLevel
  /\ maxDepth >= 2
  /\ topCall.data.t = "obj"
  /\ \E r \in returned :
       /\ DecodableString(r.data)
       /\ r.depth = maxDepth - 1
       /\ \E c \in Children(r.out) : DecodableString(c)

\* C23: when a call of fixInvalidJson resolves and the input is no longer
\* the text that call was given, the input stays as it is.
C23_StaleFixDiscarded ==
  [][\A i \in DOMAIN inFlight.fix :
       (/\ AiFixResolve
        /\ inFlight'.fix = RemoveAt(inFlight.fix, i)
        /\ inFlight.fix[i] # input)
         => input' = input]_vars

\* C24: aiLoading is idle exactly when no call of the AI service is in
\* flight, and when it is fix or types a call of that kind is in flight.
C24_LoadingTracksInFlight ==
  /\ aiLoading = "idle" <=> (inFlight.fix = <<>> /\ inFlight.types = 0)
  /\ aiLoading = "fix" => inFlight.fix # <<>>
  /\ aiLoading = "types" => inFlight.types > 0

\* C25: while a button is rendered with loading true it is disabled: the
\* Fix with AI button while aiLoading is fix, the TS button, which is
\* passed disabled={!parseResult.valid}, while aiLoading is types.
C25_LoadingDisables ==
  Idle =>
    /\ aiLoading = "fix" => ButtonDisabled(aiLoading = "fix", <<>>)
    /\ aiLoading = "types" =>
         ButtonDisabled(aiLoading = "types", <<~parseResult.valid>>)

\* C26: the history never holds more than MAX_HISTORY_ITEMS items, and a
\* step of the session that adds an item puts it at the front of the items
\* there were, of which the last is dropped when the list was full.
C26_HistoryCapped ==
  /\ [](Len(history) <= MAX_HISTORY_ITEMS)
  /\ [][(mounted /\ Ids(history') \ Ids(history) # {}) =>
          /\ history'[1].id \notin Ids(history)
          /\ Tail(history') =
               SubSeq(history, 1, Min(Len(history), MAX_HISTORY_ITEMS - 1))]_vars

\* C26 witness: the history is full and its two newest items were saved in
\* this session, so that older items have been dropped.
C26_Witness ==
  /\ Idle
  /\ Len(history) = MAX_HISTORY_ITEMS
  /\ history[2].id > 0
  /\ history[MAX_HISTORY_ITEMS].id < 0

\* C27: no two items of the history have the same content, and when the
\* timer fires for a text that an item of the history holds, the history
\* and the stored history stay as they are.
C27_NoDuplicateContents ==
  /\ [](\A i, j \in DOMAIN history :
          history[i].content = history[j].content => i = j)
  /\ [][(/\ AutoSave
         /\ \E i \in DOMAIN timer, j \in DOMAIN history :
              timer[i].content = history[j].content)
          => (history' = history /\ stored' = stored)]_vars

\* C27 witness: an item that is not the newest was restored, the timer of
\* that input has fired, and the history holds two items, the restored one
\* with the timestamp it had.
C27_Witness ==
  /\ Idle
  /\ timer = <<>>
  /\ SavesToHistory(input, parseResult)
  /\ now - inputSince >= SaveDelay
  /\ Len(history) = 2
  /\ history[2].content = input
  /\ history[2].timestamp < inputSince
  /\ history[1].timestamp < inputSince

\* C28: once the history effect has run, localStorage holds the history:
\* the key is absent and the history is empty, or it holds the list that is
\* the history.  (A text under the key that is not a list, which the app
\* never writes, stays there until the next write.)
C28_StoredIsHistory ==
  (mounted /\ stored # Corrupt) =>
    /\ stored.kind \in {"absent", "list"}
    /\ stored.items = history

\* C28 witness: the first item saved in this session and all older items
\* have been deleted or cleared, the second was saved after that, and it is
\* the history and the stored list.
C28_Witness ==
  /\ Idle
  /\ nextId = 2
  /\ Len(history) = 1
  /\ history[1].id = 2
  /\ stored = StoredList(history)

\* C29: currentMatchIndex is in 0..totalMatches and is 0 exactly when
\* totalMatches is 0.  With n = totalMatches > 0 and i = currentMatchIndex,
\* next goes to (i mod n) + 1 and prev to ((i - 2) mod n) + 1, and a step of
\* navigateSearch goes to one of the two; with n = 0 it changes nothing.  A
\* step that empties the query sets both counters to 0.
C29_SearchPositionInRange ==
  /\ [](/\ currentMatchIndex \in 0..totalMatches
        /\ currentMatchIndex = 0 <=> totalMatches = 0
        /\ totalMatches > 0 =>
             /\ NextIndex("next", currentMatchIndex, totalMatches) + 1
                  = (currentMatchIndex % totalMatches) + 1
             /\ NextIndex("prev", currentMatchIndex, totalMatches) + 1
                  = ((currentMatchIndex - 2) % totalMatches) + 1)
  /\ [][NavigateSearch =>
          /\ totalMatches' = totalMatches
          /\ totalMatches = 0 => currentMatchIndex' = currentMatchIndex
          /\ totalMatches > 0 =>
               currentMatchIndex' \in
                 {(currentMatchIndex % totalMatches) + 1,
                  ((currentMatchIndex - 2) % totalMatches) + 1}]_vars
  /\ [][(searchQuery # <<>> /\ searchQuery' = <<>>) =>
          (totalMatches' = 0 /\ currentMatchIndex' = 0)]_vars

\* C29 witness: with a query and the most matches, the position is at the
\* last match, which next and prev reach only through other positions or by
\* wrapping from the first.
C29_Witness ==
  /\ Idle
  /\ searchQuery # <<>>
  /\ ~searchTimer
  /\ totalMatches = MaxMatches
  /\ currentMatchIndex = MaxMatches

\* C30: for a node rendered with a non-empty query, hasMatch, which is
\* containsMatch(data, searchQuery, name), is true exactly when the node
\* with its subtree expanded marks at least one match.
C30_MatchIsHighlighted ==
  rendered.query # <<>> => (rendered.hasMatch <=> rendered.marks > 0)

====
